---- MODULE Spec2Model ----
(***************************************************************************)
(* Material shader replacer (Blender add-on): the graph rewriting and      *)
(* reconnection engine of src/operators.py and src/node_config.py, with    *)
(* the caches of src/cache.py, as a state machine over host node graphs.   *)
(*                                                                         *)
(* Strings of the host (node names, labels, socket names, type ids) are    *)
(* TLA+ strings; Chars gives the character sequence of each, and every     *)
(* textual test of the code (lower(), strip(), `in`) works on character    *)
(* sequences.  A non-ASCII character is written as one atom "uXXXX".       *)
(* Socket indices are 0-based as in the code; At(s, i) reads s[i].         *)
(***************************************************************************)
EXTENDS Integers, Sequences, FiniteSets, TLC

\* ---------------------------------------------------------------- bounds
\* operator invocations in one behaviour of Spec
MaxOps == 3
\* length of the strings drawn in SpecMatch
MaxLen == 2

\* the inputs of a node given to the input matching
MaxInputs == 3

\* ---------------------------------------------------------------- strings
Chars(s) ==
  CASE
       s = "" -> <<>>
    [] s = "Base Color" -> <<"B","a","s","e"," ","C","o","l","o","r">>
    [] s = "Metallic" -> <<"M","e","t","a","l","l","i","c">>
    [] s = "Roughness" -> <<"R","o","u","g","h","n","e","s","s">>
    [] s = "Alpha" -> <<"A","l","p","h","a">>
    [] s = "Normal" -> <<"N","o","r","m","a","l">>
    [] s = "Color" -> <<"C","o","l","o","r">>
    [] s = "Fac" -> <<"F","a","c">>
    [] s = "Shader" -> <<"S","h","a","d","e","r">>
    [] s = "BSDF" -> <<"B","S","D","F">>
    [] s = "Surface" -> <<"S","u","r","f","a","c","e">>
    [] s = "Volume" -> <<"V","o","l","u","m","e">>
    [] s = "Displacement" -> <<"D","i","s","p","l","a","c","e","m","e","n","t">>
    [] s = "Vector" -> <<"V","e","c","t","o","r">>
    [] s = "Strength" -> <<"S","t","r","e","n","g","t","h">>
    [] s = "Tex1" -> <<"T","e","x","1">>
    [] s = "Image Texture" -> <<"I","m","a","g","e"," ","T","e","x","t","u","r","e">>
    [] s = "Diffuse BSDF" -> <<"D","i","f","f","u","s","e"," ","B","S","D","F">>
    [] s = "Material Output" -> <<"M","a","t","e","r","i","a","l"," ","O","u","t","p","u","t">>
    [] s = "Mix Shader" -> <<"M","i","x"," ","S","h","a","d","e","r">>
    [] s = "Principled BSDF" -> <<"P","r","i","n","c","i","p","l","e","d"," ","B","S","D","F">>
    [] s = "Normal Map" -> <<"N","o","r","m","a","l"," ","M","a","p">>
    [] s = "BSDF_PRINCIPLED" -> <<"B","S","D","F","_","P","R","I","N","C","I","P","L","E","D">>
    [] s = "BSDF_PRINCIPLED.001" -> <<"B","S","D","F","_","P","R","I","N","C","I","P","L","E","D",".","0","0","1">>
    [] s = "BSDF_PRINCIPLED.002" -> <<"B","S","D","F","_","P","R","I","N","C","I","P","L","E","D",".","0","0","2">>
    [] s = "BSDF_PRINCIPLED.003" -> <<"B","S","D","F","_","P","R","I","N","C","I","P","L","E","D",".","0","0","3">>
    [] s = "BSDF_DIFFUSE" -> <<"B","S","D","F","_","D","I","F","F","U","S","E">>
    [] s = "MIX_SHADER" -> <<"M","I","X","_","S","H","A","D","E","R">>
    [] s = "TEX_IMAGE" -> <<"T","E","X","_","I","M","A","G","E">>
    [] s = "OUTPUT_MATERIAL" -> <<"O","U","T","P","U","T","_","M","A","T","E","R","I","A","L">>
    [] s = "GROUP" -> <<"G","R","O","U","P">>
    [] s = "NORMAL_MAP" -> <<"N","O","R","M","A","L","_","M","A","P">>
    [] s = "Toon" -> <<"T","o","o","n">>
    [] s = "Toon.001" -> <<"T","o","o","n",".","0","0","1">>
    [] s = "Toon.002" -> <<"T","o","o","n",".","0","0","2">>
    [] s = "Toon.003" -> <<"T","o","o","n",".","0","0","3">>
    [] s = "Group" -> <<"G","r","o","u","p">>
    [] s = "Geo" -> <<"G","e","o">>
    [] s = "bsdf" -> <<"b","s","d","f">>
    [] s = "Normal Alpha" -> <<"N","o","r","m","a","l"," ","A","l","p","h","a">>
    [] s = "RGB" -> <<"R","G","B">>
    [] s = "Image Texture.001" -> <<"I","m","a","g","e"," ","T","e","x","t","u","r","e",".","0","0","1">>
    [] s = "Rim Shader" -> <<"R","i","m"," ","S","h","a","d","e","r">>
    [] s = "color" -> <<"c","o","l","o","r">>
    [] s = "AO" -> <<"A","O">>
    [] s = "Noise Texture" -> <<"N","o","i","s","e"," ","T","e","x","t","u","r","e">>
    [] s = "Separate Color" -> <<"S","e","p","a","r","a","t","e"," ","C","o","l","o","r">>
    [] s = "Red" -> <<"R","e","d">>
    [] s = "Green" -> <<"G","r","e","e","n">>
    [] s = "Blue" -> <<"B","l","u","e">>
    [] s = "Value" -> <<"V","a","l","u","e">>
    [] s = "Glow" -> <<"G","l","o","w">>
    [] s = "Emission" -> <<"E","m","i","s","s","i","o","n">>

At(s, i) == s[i + 1]

Indices(s) == 0 .. (Len(s) - 1)

UPPER == <<"A","B","C","D","E","F","G","H","I","J","K","L","M","N","O","P","Q","R","S","T","U","V","W","X","Y","Z">>

LOWER == <<"a","b","c","d","e","f","g","h","i","j","k","l","m","n","o","p","q","r","s","t","u","v","w","x","y","z">>

\* str.lower() on one character
LowerChar(c) ==
  IF \E i \in 1..Len(UPPER) : UPPER[i] = c
    THEN LOWER[CHOOSE i \in 1..Len(UPPER) : UPPER[i] = c]
    ELSE c

\* str.lower()
ToLower(cs) == [i \in 1..Len(cs) |-> LowerChar(cs[i])]

IsSpace(c) == c = " "

\* str.strip(): leading and trailing white space removed
Strip(cs) ==
  IF \A i \in 1..Len(cs) : IsSpace(cs[i])
    THEN <<>>
    ELSE LET first == CHOOSE i \in 1..Len(cs) :
                        /\ ~IsSpace(cs[i])
                        /\ \A j \in 1..(i - 1) : IsSpace(cs[j])
             last  == CHOOSE i \in 1..Len(cs) :
                        /\ ~IsSpace(cs[i])
                        /\ \A j \in (i + 1)..Len(cs) : IsSpace(cs[j])
         IN  SubSeq(cs, first, last)

\* Python's `k in s` on strings
Contains(k, cs) ==
  \E i \in 0..(Len(cs) - Len(k)) : SubSeq(cs, i + 1, i + Len(k)) = k

\* any(kw in s for kw in kws)
AnyKeyword(kws, cs) == \E i \in 1..Len(kws) : Contains(kws[i], cs)

\* ------------------------------------------------- socket semantics
NORMAL_KEYWORDS ==
  << <<"n","o","r","m","a","l">>,
     <<"b","u","m","p">>,
     <<"u6cd5","u7ebf">>,
     <<"u51f9","u51f8">> >>

ROUGHNESS_KEYWORDS ==
  << <<"r","o","u","g","h","n","e","s","s">>,
     <<"r","o","u","g","h">>,
     <<"g","l","o","s","s","y">>,
     <<"g","l","o","s","s">>,
     <<"u7c97","u7cd9">>,
     <<"u5149","u6cfd">> >>

METALLIC_KEYWORDS ==
  << <<"m","e","t","a","l","l","i","c">>,
     <<"m","e","t","a","l">>,
     <<"u91d1","u5c5e">> >>

ALPHA_KEYWORDS ==
  << <<"a","l","p","h","a">>,
     <<"o","p","a","c","i","t","y">>,
     <<"t","r","a","n","s","p","a","r","e","n","c","y">>,
     <<"u900f","u660e">>,
     <<"u4e0d","u900f","u660e">>,
     <<"f","a","c">> >>

EMISSION_KEYWORDS ==
  << <<"e","m","i","s","s","i","o","n">>,
     <<"e","m","i","s","s","i","v","e">>,
     <<"g","l","o","w">>,
     <<"u81ea","u53d1","u5149">>,
     <<"u53d1","u5149">> >>

SPECULAR_KEYWORDS ==
  << <<"s","p","e","c","u","l","a","r">>,
     <<"s","p","e","c">>,
     <<"r","e","f","l","e","c","t","i","o","n">>,
     <<"u9ad8","u5149">>,
     <<"u53cd","u5c04">> >>

SUBSURFACE_KEYWORDS ==
  << <<"s","u","b","s","u","r","f","a","c","e">>,
     <<"s","s","s">>,
     <<"u6b21","u8868","u9762">> >>

AO_KEYWORDS ==
  << <<"a","o">>,
     <<"a","m","b","i","e","n","t"," ","o","c","c","l","u","s","i","o","n">>,
     <<"o","c","c","l","u","s","i","o","n">>,
     <<"u73af","u5883","u5149","u906e","u853d">>,
     <<"u906e","u853d">> >>

DISPLACEMENT_KEYWORDS ==
  << <<"d","i","s","p","l","a","c","e","m","e","n","t">>,
     <<"h","e","i","g","h","t">>,
     <<"d","i","s","p">>,
     <<"u7f6e","u6362">>,
     <<"u9ad8","u5ea6">> >>

SHADER_KEYWORDS ==
  << <<"s","h","a","d","e","r">>,
     <<"b","s","d","f">>,
     <<"m","a","t","e","r","i","a","l">>,
     <<"u7740","u8272">>,
     <<"u6750","u8d28">>,
     <<"s","u","r","f","a","c","e">> >>

BASE_COLOR_KEYWORDS ==
  << <<"b","a","s","e"," ","c","o","l","o","r">>,
     <<"b","a","s","e","c","o","l","o","r">> >>

GENERIC_COLOR_KEYWORDS ==
  << <<"c","o","l","o","r">>,
     <<"u989c","u8272">> >>

IMAGE_COLOR_KEYWORDS ==
  << <<"b","a","s","e"," ","c","o","l","o","r">>,
     <<"b","a","s","e","c","o","l","o","r">>,
     <<"c","o","l","o","r">>,
     <<"u989c","u8272">>,
     <<"d","i","f","f","u","s","e">>,
     <<"u6f2b","u53cd","u5c04">>,
     <<"a","l","b","e","d","o">>,
     <<"u53cd","u7167","u7387">>,
     <<"u57fa","u7840","u8272">> >>

IMAGE_ALPHA_KEYWORDS ==
  << <<"a","l","p","h","a">>,
     <<"o","p","a","c","i","t","y">>,
     <<"t","r","a","n","s","p","a","r","e","n","c","y">>,
     <<"u900f","u660e">> >>

SURFACE_NAMES ==
  << <<"S","u","r","f","a","c","e">>,
     <<"s","u","r","f","a","c","e">>,
     <<"u8868","u9762">>,
     <<"u66f2","u9762">>,
     <<"u8868","uff08","u66f2","uff09","u9762">> >>

\* a classification that tests the generic colour words before the other groups
get_socket_semantic_generic_first(socket_name) ==
  LET name_lower == ToLower(socket_name)
  IN  IF AnyKeyword(BASE_COLOR_KEYWORDS, name_lower) THEN "COLOR"
      ELSE IF AnyKeyword(GENERIC_COLOR_KEYWORDS, name_lower) THEN "COLOR"
      ELSE IF AnyKeyword(NORMAL_KEYWORDS, name_lower) THEN "NORMAL"
      ELSE IF AnyKeyword(ROUGHNESS_KEYWORDS, name_lower) THEN "ROUGHNESS"
      ELSE IF AnyKeyword(METALLIC_KEYWORDS, name_lower) THEN "METALLIC"
      ELSE IF AnyKeyword(ALPHA_KEYWORDS, name_lower) THEN "ALPHA"
      ELSE IF AnyKeyword(EMISSION_KEYWORDS, name_lower) THEN "EMISSION"
      ELSE IF AnyKeyword(SPECULAR_KEYWORDS, name_lower) THEN "SPECULAR"
      ELSE IF AnyKeyword(SUBSURFACE_KEYWORDS, name_lower) THEN "SUBSURFACE"
      ELSE IF AnyKeyword(AO_KEYWORDS, name_lower) THEN "AO"
      ELSE IF AnyKeyword(DISPLACEMENT_KEYWORDS, name_lower) THEN "DISPLACEMENT"
      ELSE "UNKNOWN"

\* SocketSemantics.get_socket_semantic
get_socket_semantic(socket_name) ==
  LET name_lower == ToLower(socket_name)
  IN  IF AnyKeyword(BASE_COLOR_KEYWORDS, name_lower) THEN "COLOR"
      ELSE IF AnyKeyword(NORMAL_KEYWORDS, name_lower) THEN "NORMAL"
      ELSE IF AnyKeyword(ROUGHNESS_KEYWORDS, name_lower) THEN "ROUGHNESS"
      ELSE IF AnyKeyword(METALLIC_KEYWORDS, name_lower) THEN "METALLIC"
      ELSE IF AnyKeyword(ALPHA_KEYWORDS, name_lower) THEN "ALPHA"
      ELSE IF AnyKeyword(EMISSION_KEYWORDS, name_lower) THEN "EMISSION"
      ELSE IF AnyKeyword(SPECULAR_KEYWORDS, name_lower) THEN "SPECULAR"
      ELSE IF AnyKeyword(SUBSURFACE_KEYWORDS, name_lower) THEN "SUBSURFACE"
      ELSE IF AnyKeyword(AO_KEYWORDS, name_lower) THEN "AO"
      ELSE IF AnyKeyword(DISPLACEMENT_KEYWORDS, name_lower) THEN "DISPLACEMENT"
      ELSE IF AnyKeyword(GENERIC_COLOR_KEYWORDS, name_lower) THEN "COLOR"
      ELSE "UNKNOWN"

\* the strings of the universe: the keys of Chars
Strings ==
  { "", "Base Color", "Metallic", "Roughness", "Alpha", "Normal", "Color", "Fac",
    "Shader", "BSDF", "Surface", "Volume", "Displacement", "Vector", "Strength", "Tex1",
    "Image Texture", "Diffuse BSDF", "Material Output", "Mix Shader", "Principled BSDF",
    "Normal Map", "BSDF_PRINCIPLED", "BSDF_PRINCIPLED.001", "BSDF_PRINCIPLED.002",
    "BSDF_PRINCIPLED.003", "BSDF_DIFFUSE", "MIX_SHADER", "TEX_IMAGE", "OUTPUT_MATERIAL",
    "GROUP", "NORMAL_MAP", "Toon", "Toon.001", "Toon.002", "Toon.003", "Group", "Geo",
    "bsdf", "Normal Alpha", "RGB", "Image Texture.001", "Rim Shader", "color",
    "AO", "Noise Texture", "Separate Color", "Red", "Green", "Blue", "Value", "Glow", "Emission" }

\* str.lower() of each string of the universe
Lower == [s \in Strings |-> ToLower(Chars(s))]

\* SocketSemantics.get_socket_semantic of each string of the universe
Semantic == [s \in Strings |-> get_socket_semantic(Chars(s))]

\* a compatibility table read in both directions
are_semantically_compatible_symmetric(output_semantic, input_semantic) ==
  IF output_semantic = input_semantic THEN 100
  ELSE CASE {output_semantic, input_semantic} = {"COLOR", "EMISSION"} -> 80
         [] {output_semantic, input_semantic} = {"ROUGHNESS", "SPECULAR"} -> 60
         [] {output_semantic, input_semantic} = {"AO", "ROUGHNESS"} -> 40
         [] {output_semantic, input_semantic} = {"AO", "SPECULAR"} -> 40
         [] OTHER -> 0

\* SocketSemantics.are_semantically_compatible
are_semantically_compatible(output_semantic, input_semantic) ==
  IF output_semantic = input_semantic THEN 100
  ELSE CASE output_semantic = "COLOR" /\ input_semantic = "EMISSION" -> 80
         [] output_semantic = "ROUGHNESS" /\ input_semantic = "SPECULAR" -> 60
         [] output_semantic = "AO" /\ input_semantic = "ROUGHNESS" -> 40
         [] output_semantic = "AO" /\ input_semantic = "SPECULAR" -> 40
         [] OTHER -> 0

\* MATERIAL_OT_batch_replace_shader._get_type_compatibility_score
get_type_compatibility_score(output_type, input_type) ==
  IF output_type = input_type THEN 100
  ELSE CASE output_type = "RGBA" /\ input_type = "VECTOR" -> 80
         [] output_type = "RGBA" /\ input_type = "VALUE" -> 60
         [] output_type = "VECTOR" /\ input_type = "RGBA" -> 80
         [] output_type = "VALUE" /\ input_type = "RGBA" -> 60
         [] OTHER -> 0

\* ------------------------------------------------- node type registry
\* NodeTypeConfig.SHADER_NODE_TYPES
SHADER_NODE_TYPES ==
  { "BSDF_PRINCIPLED", "BSDF_DIFFUSE", "BSDF_GLOSSY", "BSDF_TRANSPARENT",
    "BSDF_GLASS", "BSDF_TRANSLUCENT", "BSDF_ANISOTROPIC", "BSDF_VELVET",
    "BSDF_REFRACTION", "BSDF_TOON", "BSDF_SHEEN", "BSDF_HAIR",
    "BSDF_HAIR_PRINCIPLED", "SUBSURFACE_SCATTERING", "EMISSION",
    "VOLUME_ABSORPTION", "VOLUME_SCATTER", "VOLUME_PRINCIPLED",
    "MIX_SHADER", "ADD_SHADER", "HOLDOUT", "BACKGROUND", "EEVEE_SPECULAR" }

\* NodeTypeConfig.TEXTURE_NODE_TYPES
TEXTURE_NODE_TYPES ==
  { "TEX_IMAGE", "TEX_ENVIRONMENT", "TEX_SKY", "TEX_NOISE", "TEX_VORONOI",
    "TEX_WAVE", "TEX_MAGIC", "TEX_CHECKER", "TEX_BRICK", "TEX_GRADIENT",
    "TEX_WHITE_NOISE", "TEX_GABOR", "TEX_MUSGRAVE" }

\* NodeTypeConfig.BUILTIN_SHADER_TYPES
BUILTIN_SHADER_TYPES ==
  { "BSDF_PRINCIPLED", "BSDF_DIFFUSE", "BSDF_GLOSSY", "BSDF_TRANSPARENT",
    "BSDF_GLASS", "EMISSION", "BSDF_ANISOTROPIC", "BSDF_HAIR",
    "SUBSURFACE_SCATTERING", "VOLUME_ABSORPTION", "VOLUME_SCATTER",
    "VOLUME_PRINCIPLED", "MIX_SHADER", "ADD_SHADER", "BSDF_SHEEN",
    "BSDF_TRANSLUCENT", "BSDF_REFRACTION", "BSDF_TOON", "HOLDOUT",
    "BSDF_HAIR_PRINCIPLED", "BACKGROUND" }

\* NodeTypeConfig.is_valid_builtin_shader
is_valid_builtin_shader(shader_type) == shader_type \in BUILTIN_SHADER_TYPES

\* NodeTypeConfig.get_shader_class_name, on SHADER_TYPE_TO_CLASS
get_shader_class_name(shader_type) ==
  CASE shader_type = "BSDF_PRINCIPLED" -> "ShaderNodeBsdfPrincipled"
    [] shader_type = "BSDF_DIFFUSE" -> "ShaderNodeBsdfDiffuse"
    [] shader_type = "BSDF_GLOSSY" -> "ShaderNodeBsdfGlossy"
    [] shader_type = "BSDF_TRANSPARENT" -> "ShaderNodeBsdfTransparent"
    [] shader_type = "BSDF_GLASS" -> "ShaderNodeBsdfGlass"
    [] shader_type = "BSDF_TRANSLUCENT" -> "ShaderNodeBsdfTranslucent"
    [] shader_type = "BSDF_ANISOTROPIC" -> "ShaderNodeBsdfAnisotropic"
    [] shader_type = "BSDF_REFRACTION" -> "ShaderNodeBsdfRefraction"
    [] shader_type = "BSDF_TOON" -> "ShaderNodeBsdfToon"
    [] shader_type = "BSDF_SHEEN" -> "ShaderNodeBsdfSheen"
    [] shader_type = "BSDF_HAIR" -> "ShaderNodeBsdfHair"
    [] shader_type = "BSDF_HAIR_PRINCIPLED" -> "ShaderNodeBsdfHairPrincipled"
    [] shader_type = "SUBSURFACE_SCATTERING" -> "ShaderNodeSubsurfaceScattering"
    [] shader_type = "EMISSION" -> "ShaderNodeEmission"
    [] shader_type = "HOLDOUT" -> "ShaderNodeHoldout"
    [] shader_type = "BACKGROUND" -> "ShaderNodeBackground"
    [] shader_type = "VOLUME_ABSORPTION" -> "ShaderNodeVolumeAbsorption"
    [] shader_type = "VOLUME_SCATTER" -> "ShaderNodeVolumeScatter"
    [] shader_type = "VOLUME_PRINCIPLED" -> "ShaderNodeVolumePrincipled"
    [] shader_type = "MIX_SHADER" -> "ShaderNodeMixShader"
    [] shader_type = "ADD_SHADER" -> "ShaderNodeAddShader"
    [] OTHER -> "ShaderNodeBsdfPrincipled"

\* any(out.type == 'SHADER' for out in node.outputs)
has_shader_output(node) ==
  \E i \in 1..Len(node.outputs) : node.outputs[i].type = "SHADER"

\* NodeTypeConfig.is_shader_node; node_tree = "" is a group node without a tree
is_shader_node(node) ==
  \/ node.type \in SHADER_NODE_TYPES
  \/ /\ node.type = "GROUP"
     /\ node.node_tree # ""
     /\ \/ has_shader_output(node)
        \/ AnyKeyword(SHADER_KEYWORDS, Lower[node.node_tree])

\* NodeTypeConfig.is_texture_node
is_texture_node(node) == node.type \in TEXTURE_NODE_TYPES

\* ------------------------------------------------- loops
RECURSIVE FoldSeq(_, _, _)
\* for x in s: acc = Op(acc, x)
FoldSeq(Op(_, _), acc, s) ==
  IF s = <<>> THEN acc ELSE FoldSeq(Op, Op(acc, Head(s)), Tail(s))

\* [x for x in s if Test(x)]
Filter(s, Test(_)) == SelectSeq(s, Test)

\* the first index (0-based) of s whose element satisfies Test, or -1
FirstIndex(s, Test(_)) ==
  IF \E i \in 1..Len(s) : Test(s[i])
    THEN (CHOOSE i \in 1..Len(s) : Test(s[i]) /\ \A j \in 1..(i - 1) : ~Test(s[j])) - 1
    ELSE -1

\* ------------------------------------------------- host node graph
\* A socket is [name, type]; a node is [name, label, type, node_tree, inputs,
\* outputs]; a link is [from_node, from_socket, to_node, to_socket] with node
\* names (unique in a graph) and socket indices, so that a socket's identity is
\* (node, direction, index); a graph is [use_nodes, nodes, links].
Sock(n, t) == [name |-> n, type |-> t]

\* nodes.get(name): the position (1-based) of the node, 0 when absent
NodePos(nodes, name) ==
  IF \E i \in 1..Len(nodes) : nodes[i].name = name
    THEN CHOOSE i \in 1..Len(nodes) : nodes[i].name = name
    ELSE 0

HasNode(nodes, name) == NodePos(nodes, name) # 0

GetNode(nodes, name) == nodes[NodePos(nodes, name)]

\* links.new(source, target): an input holds one link, the new link replaces it
links_new(links, from_node, from_socket, to_node, to_socket) ==
  Append(SelectSeq(links, LAMBDA l : ~(l.to_node = to_node /\ l.to_socket = to_socket)),
         [from_node |-> from_node, from_socket |-> from_socket,
          to_node |-> to_node, to_socket |-> to_socket])

\* whether links.new raises for this pair of sockets: the host refuses the
\* socket type pairs of its policy
HostRefuses(refused, nodes, from_node, from_socket, to_node, to_socket) ==
  << At(GetNode(nodes, from_node).outputs, from_socket).type,
     At(GetNode(nodes, to_node).inputs, to_socket).type >> \in refused

\* error_handler.safe_link: [ok, links]
safe_link(refused, nodes, links, from_node, from_socket, to_node, to_socket) ==
  IF HostRefuses(refused, nodes, from_node, from_socket, to_node, to_socket)
    THEN [ok |-> FALSE, links |-> links]
    ELSE [ok |-> TRUE,
          links |-> links_new(links, from_node, from_socket, to_node, to_socket)]

\* nodes.remove(node): the node goes, and every link at one of its sockets
nodes_remove(g, name) ==
  [g EXCEPT !.nodes = SelectSeq(g.nodes, LAMBDA n : n.name # name),
            !.links = SelectSeq(g.links, LAMBDA l : l.from_node # name /\ l.to_node # name)]

\* value named in Body: the local variable of a function body, assigned once
With(value, Body(_)) == Body(value)

\* ------------------------------------------------- link attempts
\* One guarded links.new: the links after it, the count of links made, and the
\* record of the attempt (which operation stage tried which sockets, and
\* whether the host made the link).
Try(acc, stage, refused, nodes, from_node, from_socket, to_node, to_socket) ==
  With(safe_link(refused, nodes, acc.links, from_node, from_socket, to_node, to_socket),
       LAMBDA r :
         [acc EXCEPT !.links = r.links,
                     !.count = acc.count + (IF r.ok THEN 1 ELSE 0),
                     !.log = Append(acc.log,
                               [stage |-> stage, from_node |-> from_node,
                                from_socket |-> from_socket, to_node |-> to_node,
                                to_socket |-> to_socket, ok |-> r.ok])])

LastOk(acc) == acc.log[Len(acc.log)].ok

SetMin(S) == CHOOSE x \in S : \A y \in S : x <= y

SetMax(S) == CHOOSE x \in S : \A y \in S : x >= y

SeqOfIndices(s) == [i \in 1..Len(s) |-> i - 1]

\* ------------------------------------------------- auto-connection engine
\* the first output of type SHADER, else the first output, else -1
find_shader_output(node) ==
  LET i == FirstIndex(node.outputs, LAMBDA o : o.type = "SHADER")
  IN  IF i >= 0 THEN i ELSE IF Len(node.outputs) > 0 THEN 0 ELSE -1

\* `name in node.inputs`: the first input of that name, or -1
InputByName(node, cs) == FirstIndex(node.inputs, LAMBDA sk : Chars(sk.name) = cs)

\* the output node's surface input of apply_auto_connections
auto_surface_input(output_node) ==
  LET hits == SelectSeq(SURFACE_NAMES, LAMBDA nm : InputByName(output_node, nm) >= 0)
  IN  IF hits # <<>> THEN InputByName(output_node, Head(hits))
      ELSE IF Len(output_node.inputs) > 0 THEN 0 ELSE -1

\* the lowest unconnected input whose lower-cased name holds the first keyword
\* (in list order) that any unconnected input holds; -1 without one
keyword_input(shader_node, keywords, connected_inputs) ==
  With([i \in Indices(shader_node.inputs) |-> Lower[At(shader_node.inputs, i).name]],
       LAMBDA input_name :
         LET match(kw) == { i \in Indices(shader_node.inputs) :
                              /\ i \notin connected_inputs
                              /\ Contains(kw, input_name[i]) }
             hits == SelectSeq(keywords, LAMBDA kw : match(kw) # {})
         IN  IF hits = <<>> THEN -1 ELSE SetMin(match(Head(hits))))

\* the alpha input searched for an image texture: any alpha keyword, lowest index
alpha_input(shader_node, connected_inputs) ==
  With({ i \in Indices(shader_node.inputs) :
           /\ i \notin connected_inputs
           /\ AnyKeyword(IMAGE_ALPHA_KEYWORDS, Lower[At(shader_node.inputs, i).name]) },
       LAMBDA match : IF match = {} THEN -1 ELSE SetMin(match))

\* has_alpha_input of the texture pass
has_alpha_input(shader_node) ==
  \E i \in Indices(shader_node.inputs) :
    Semantic[At(shader_node.inputs, i).name] = "ALPHA"

\* the scan `if score > best_score` over the unconnected inputs: the first
\* input of maximal score, -1 when no score is above 0
best_semantic_input(shader_node, connected_inputs, semantic) ==
  With([i \in Indices(shader_node.inputs) |->
          are_semantically_compatible(semantic, Semantic[At(shader_node.inputs, i).name])],
       LAMBDA score :
         LET cand == { i \in Indices(shader_node.inputs) : i \notin connected_inputs }
             best == IF cand = {} THEN 0 ELSE SetMax({ score[i] : i \in cand })
         IN  [input |-> IF best > 0 THEN SetMin({ i \in cand : score[i] = best }) ELSE -1,
              score |-> best])

\* (label if label else name).lower()
label_or_name_lower(node) ==
  Lower[IF node.label # "" THEN node.label ELSE node.name]

\* the semantic of a non-image texture node, from its label or name
texture_semantic(tex_node) ==
  With(label_or_name_lower(tex_node), LAMBDA tex_name :
    IF AnyKeyword(<< <<"n","o","r","m","a","l">>, <<"n","o","r","m">>, <<"u6cd5","u7ebf">> >>, tex_name)
      THEN "NORMAL"
    ELSE IF AnyKeyword(<< <<"r","o","u","g","h">>, <<"g","l","o","s","s">>, <<"u7c97","u7cd9">>, <<"u5149","u6cfd">> >>, tex_name)
      THEN "ROUGHNESS"
    ELSE IF AnyKeyword(<< <<"m","e","t","a","l">>, <<"u91d1","u5c5e">> >>, tex_name)
      THEN "METALLIC"
    ELSE IF AnyKeyword(<< <<"a","o">>, <<"a","m","b","i","e","n","t">>, <<"u906e","u853d">> >>, tex_name)
      THEN "AO"
    ELSE IF AnyKeyword(<< <<"e","m","i","t">>, <<"g","l","o","w">>, <<"u53d1","u5149">> >>, tex_name)
      THEN "EMISSION"
    ELSE IF AnyKeyword(<< <<"a","l","p","h","a">>, <<"o","p","a","c","i","t","y">>, <<"u900f","u660e">> >>, tex_name)
      THEN "ALPHA"
    ELSE "COLOR")

\* the color output of a non-image texture node, -1 without one
texture_color_output(tex_node) ==
  With(FirstIndex(tex_node.outputs,
         LAMBDA o : /\ o.type \in {"RGBA", "VECTOR"}
                    /\ Contains(<<"c","o","l","o","r">>, Lower[o.name])),
       LAMBDA named :
         IF named >= 0 THEN named
         ELSE FirstIndex(tex_node.outputs, LAMBDA o : o.type \in {"RGBA", "VECTOR"}))

\* the semantic of an output of an "other" node: by socket name, else by the
\* node's label or name, else COLOR
other_output_semantic(other_node, out) ==
  With(Semantic[out.name], LAMBDA output_semantic :
    IF output_semantic # "UNKNOWN" THEN output_semantic
    ELSE With(label_or_name_lower(other_node), LAMBDA node_name :
      IF AnyKeyword(<< <<"n","o","r","m","a","l">>, <<"n","o","r","m">>, <<"u6cd5","u7ebf">> >>, node_name)
        THEN "NORMAL"
      ELSE IF AnyKeyword(<< <<"r","o","u","g","h">>, <<"u7c97","u7cd9">> >>, node_name)
        THEN "ROUGHNESS"
      ELSE IF AnyKeyword(<< <<"m","e","t","a","l">>, <<"u91d1","u5c5e">> >>, node_name)
        THEN "METALLIC"
      ELSE IF AnyKeyword(<< <<"a","o">>, <<"u906e","u853d">> >>, node_name)
        THEN "AO"
      ELSE IF AnyKeyword(<< <<"b","u","m","p">>, <<"u51f9","u51f8">> >>, node_name)
        THEN "NORMAL"
      ELSE IF AnyKeyword(<< <<"a","l","p","h","a">>, <<"u900f","u660e">> >>, node_name)
        THEN "ALPHA"
      ELSE "COLOR"))

\* a pass that does not record the inputs it has linked
Connected_forgets(tried, input) == tried

\* `if safe_link(...): connected_inputs.add(input)` of the auto-connection passes
Connected(tried, input) ==
  IF LastOk(tried) THEN [tried EXCEPT !.connected = @ \cup {input}] ELSE tried

\* an image-texture branch that looks for an alpha input whatever the
\* classification of the shader node's inputs
image_texture_step_ungated(acc, refused, nodes, shader_node, tex_node) ==
  With(keyword_input(shader_node, IMAGE_COLOR_KEYWORDS, acc.connected), LAMBDA target_input :
  With(IF target_input < 0 THEN acc
       ELSE Connected(Try(acc, "texture", refused, nodes, tex_node.name, 0,
                          shader_node.name, target_input), target_input),
       LAMBDA a1 :
         IF Len(tex_node.outputs) > 1
           THEN With(alpha_input(shader_node, a1.connected), LAMBDA alpha :
                  IF alpha >= 0
                    THEN Connected(Try(a1, "alpha", refused, nodes, tex_node.name, 1,
                                       shader_node.name, alpha), alpha)
                    ELSE a1)
           ELSE a1))

\* the image-texture branch of the texture pass, for one shader node and one
\* texture node; acc also carries the pass's connected_inputs
image_texture_step(acc, refused, nodes, shader_node, tex_node) ==
  With(keyword_input(shader_node, IMAGE_COLOR_KEYWORDS, acc.connected), LAMBDA target_input :
  With(IF target_input < 0 THEN acc
       ELSE Connected(Try(acc, "texture", refused, nodes, tex_node.name, 0,
                          shader_node.name, target_input), target_input),
       LAMBDA a1 :
         IF has_alpha_input(shader_node) /\ Len(tex_node.outputs) > 1
           THEN With(alpha_input(shader_node, a1.connected), LAMBDA alpha :
                  IF alpha >= 0
                    THEN Connected(Try(a1, "alpha", refused, nodes, tex_node.name, 1,
                                       shader_node.name, alpha), alpha)
                    ELSE a1)
           ELSE a1))

\* a texture branch that takes every input the other-node pass would take
plain_texture_step_weak(acc, refused, nodes, shader_node, tex_node) ==
  With(texture_color_output(tex_node), LAMBDA color_output :
    IF color_output < 0 THEN acc
    ELSE With(best_semantic_input(shader_node, acc.connected, texture_semantic(tex_node)),
              LAMBDA best :
                IF best.input >= 0 /\ best.score >= 40
                  THEN Connected(Try(acc, "texture", refused, nodes, tex_node.name,
                                     color_output, shader_node.name, best.input),
                                 best.input)
                  ELSE acc))

\* the branch of the texture pass for the other texture nodes
plain_texture_step(acc, refused, nodes, shader_node, tex_node) ==
  With(texture_color_output(tex_node), LAMBDA color_output :
    IF color_output < 0 THEN acc
    ELSE With(best_semantic_input(shader_node, acc.connected, texture_semantic(tex_node)),
              LAMBDA best :
                IF best.input >= 0 /\ best.score >= 50
                  THEN Connected(Try(acc, "texture", refused, nodes, tex_node.name,
                                     color_output, shader_node.name, best.input),
                                 best.input)
                  ELSE acc))

\* the texture pass for one shader node: a fresh connected_inputs, then
\* every texture node in graph order
texture_pass_node(acc, refused, nodes, texture_nodes, shader_node) ==
  With(FoldSeq(LAMBDA a, tex_node :
                 IF Len(tex_node.outputs) = 0 THEN a
                 ELSE IF tex_node.type = "TEX_IMAGE"
                   THEN image_texture_step(a, refused, nodes, shader_node, tex_node)
                   ELSE plain_texture_step(a, refused, nodes, shader_node, tex_node),
               [links |-> acc.links, count |-> acc.count, log |-> acc.log,
                connected |-> {}],
               texture_nodes),
       LAMBDA done : [links |-> done.links, count |-> done.count, log |-> done.log])

\* the outputs of one other node tried against one shader node: the loop
\* leaves at the first link made (`found` set)
other_node_step(acc, refused, nodes, shader_node, other_node) ==
  With(FoldSeq(LAMBDA a, o :
                 IF a.found \/ At(other_node.outputs, o).type \notin {"RGBA", "VECTOR", "VALUE"}
                   THEN a
                 ELSE With(best_semantic_input(
                             shader_node, a.connected,
                             other_output_semantic(other_node, At(other_node.outputs, o))),
                           LAMBDA best :
                             IF best.input >= 0 /\ best.score >= 40
                               THEN With(Try(a, "other", refused, nodes, other_node.name, o,
                                             shader_node.name, best.input),
                                         LAMBDA tried :
                                           [Connected(tried, best.input)
                                              EXCEPT !.found = LastOk(tried)])
                               ELSE a),
               [links |-> acc.links, count |-> acc.count, log |-> acc.log,
                connected |-> acc.connected, found |-> FALSE],
               SeqOfIndices(other_node.outputs)),
       LAMBDA done : [links |-> done.links, count |-> done.count, log |-> done.log,
                      connected |-> done.connected])

\* the other-node pass for one shader node
other_pass_node(acc, refused, nodes, other_nodes, shader_node) ==
  With(FoldSeq(LAMBDA a, other_node :
                 other_node_step(a, refused, nodes, shader_node, other_node),
               [links |-> acc.links, count |-> acc.count, log |-> acc.log,
                connected |-> {}],
               other_nodes),
       LAMBDA done : [links |-> done.links, count |-> done.count, log |-> done.log])

\* the shader-to-output pass: the first shader node that has an output is
\* tried against the output node's surface input, and the loop leaves
output_pass(acc, refused, nodes, shader_nodes) ==
  LET o == FirstIndex(nodes, LAMBDA n : n.type = "OUTPUT_MATERIAL")
      output_node == At(nodes, o)
      withOut == SelectSeq(shader_nodes, LAMBDA n : Len(n.outputs) > 0)
      shader_node == Head(withOut)
      surface_input == auto_surface_input(output_node)
  IN  IF o < 0 \/ withOut = <<>> THEN acc
      ELSE IF surface_input < 0 THEN acc
      ELSE Try(acc, "output", refused, nodes, shader_node.name,
               find_shader_output(shader_node), output_node.name, surface_input)

\* an engine that does not read the auto-connect setting
apply_auto_connections_always(refused, nodes, links, auto_connect) ==
  LET shader_nodes ==
        SelectSeq(nodes, LAMBDA n :
          \/ n.type \in SHADER_NODE_TYPES
          \/ n.type = "GROUP" /\ n.node_tree # "" /\ is_shader_node(n))
      texture_nodes == SelectSeq(nodes, is_texture_node)
      other_nodes ==
        SelectSeq(nodes, LAMBDA n :
          /\ n.type \notin TEXTURE_NODE_TYPES
          /\ n.type \notin SHADER_NODE_TYPES
          /\ n.type # "OUTPUT_MATERIAL"
          /\ n.type # "GROUP")
      start == [links |-> links, count |-> 0, log |-> <<>>]
  IN  FoldSeq(LAMBDA a, sh : other_pass_node(a, refused, nodes, other_nodes, sh),
              FoldSeq(LAMBDA a, sh :
                        texture_pass_node(a, refused, nodes, texture_nodes, sh),
                      output_pass(start, refused, nodes, shader_nodes),
                      shader_nodes),
              shader_nodes)

\* AutoConnectionRules.apply_auto_connections: [links, count, log]
apply_auto_connections(refused, nodes, links, auto_connect) ==
  LET shader_nodes ==
        SelectSeq(nodes, LAMBDA n :
          \/ n.type \in SHADER_NODE_TYPES
          \/ n.type = "GROUP" /\ n.node_tree # "" /\ is_shader_node(n))
      texture_nodes == SelectSeq(nodes, is_texture_node)
      other_nodes ==
        SelectSeq(nodes, LAMBDA n :
          /\ n.type \notin TEXTURE_NODE_TYPES
          /\ n.type \notin SHADER_NODE_TYPES
          /\ n.type # "OUTPUT_MATERIAL"
          /\ n.type # "GROUP")
      start == [links |-> links, count |-> 0, log |-> <<>>]
  IN  IF ~auto_connect THEN start
      ELSE FoldSeq(LAMBDA a, sh : other_pass_node(a, refused, nodes, other_nodes, sh),
                   FoldSeq(LAMBDA a, sh :
                             texture_pass_node(a, refused, nodes, texture_nodes, sh),
                           output_pass(start, refused, nodes, shader_nodes),
                           shader_nodes),
                   shader_nodes)

\* a matcher that also takes a label or a name lying inside the rule value
match_node_by_label_or_name_either(label, name, target_name) ==
  LET target_name_lower == Strip(ToLower(target_name))
  IN  /\ target_name # <<>>
      /\ \/ label # <<>> /\ Strip(ToLower(label)) = target_name_lower
         \/ Strip(ToLower(name)) = target_name_lower
         \/ label # <<>> /\ Contains(target_name_lower, ToLower(label))
         \/ Contains(target_name_lower, ToLower(name))
         \/ label # <<>> /\ Contains(ToLower(label), target_name_lower)
         \/ Contains(ToLower(name), target_name_lower)

\* ------------------------------------------------- rule matching
\* node_config.match_node_by_label_or_name, on the characters of the node's
\* label, of its name and of the rule value
match_node_by_label_or_name(label, name, target_name) ==
  LET target_name_lower == Strip(ToLower(target_name))
  IN  /\ target_name # <<>>
      /\ \/ label # <<>> /\ Strip(ToLower(label)) = target_name_lower
         \/ Strip(ToLower(name)) = target_name_lower
         \/ label # <<>> /\ Contains(target_name_lower, ToLower(label))
         \/ Contains(target_name_lower, ToLower(name))

\* the display names of NODE_TYPE_NAMES are non-ASCII but for this one, so
\* NODE_TYPE_NAMES_REVERSE maps no other ASCII type identifier
NODE_TYPE_NAMES_REVERSE(target_type) ==
  IF target_type = "RGB" THEN "RGB" ELSE ""

\* node_config.match_node_by_type
match_node_by_type(node, target_type) ==
  /\ target_type # ""
  /\ \/ node.type = target_type
     \/ target_type = "GROUP" /\ node.type = "GROUP"
     \/ /\ NODE_TYPE_NAMES_REVERSE(target_type) # ""
        /\ node.type = NODE_TYPE_NAMES_REVERSE(target_type)

\* the category separators of get_all_node_types: the identifiers that start "__"
CATEGORY_SEPARATORS ==
  { "__Shader__", "__Texture__", "__Color__", "__Vector__", "__Converter__",
    "__Input__", "__Output__", "__Math__", "__Layout__", "__Script__" }

\* the nodes one side of a rule matches, in graph order
rule_nodes(nodes, match_mode, node_label, node_type) ==
  IF match_mode = "LABEL"
    THEN IF node_label # ""
           THEN SelectSeq(nodes, LAMBDA n :
                  match_node_by_label_or_name(Chars(n.label), Chars(n.name), Chars(node_label)))
           ELSE <<>>
    ELSE IF node_type # "" /\ node_type \notin CATEGORY_SEPARATORS
           THEN SelectSeq(nodes, LAMBDA n : match_node_by_type(n, node_type))
           ELSE <<>>

\* a rule loop that gives up once a link has been refused
apply_rule_stop_on_refusal(acc, refused, nodes, rule) ==
  FoldSeq(LAMBDA a, source_node :
            FoldSeq(LAMBDA b, target_node :
                      IF b.log # <<>> /\ ~LastOk(b) THEN b
                      ELSE IF source_node = target_node THEN b
                      ELSE IF /\ rule.source_socket_index < Len(source_node.outputs)
                              /\ rule.target_socket_index < Len(target_node.inputs)
                        THEN Try(b, "rule", refused, nodes, source_node.name,
                                 rule.source_socket_index, target_node.name,
                                 rule.target_socket_index)
                        ELSE b,
                    a,
                    rule_nodes(nodes, rule.target_match_mode,
                               rule.target_node_label, rule.target_node_type)),
          acc,
          rule_nodes(nodes, rule.source_match_mode,
                     rule.source_node_label, rule.source_node_type))

\* one connection rule over a graph: every (source, target) pair, source first
apply_rule(acc, refused, nodes, rule) ==
  FoldSeq(LAMBDA a, source_node :
            FoldSeq(LAMBDA b, target_node :
                      IF source_node = target_node THEN b
                      ELSE IF /\ rule.source_socket_index < Len(source_node.outputs)
                              /\ rule.target_socket_index < Len(target_node.inputs)
                        THEN Try(b, "rule", refused, nodes, source_node.name,
                                 rule.source_socket_index, target_node.name,
                                 rule.target_socket_index)
                        ELSE b,
                    a,
                    rule_nodes(nodes, rule.target_match_mode,
                               rule.target_node_label, rule.target_node_type)),
          acc,
          rule_nodes(nodes, rule.source_match_mode,
                     rule.source_node_label, rule.source_node_type))

\* the rule loop of MATERIAL_OT_reconnect_with_rules.execute
apply_rules(acc, refused, nodes, rules) ==
  FoldSeq(LAMBDA a, rule : apply_rule(a, refused, nodes, rule), acc, rules)

\* ------------------------------------------------- snapshot store
\* bl_idname of a socket, by its type
SocketIdname(type) ==
  CASE type = "RGBA" -> "NodeSocketColor"
    [] type = "VALUE" -> "NodeSocketFloat"
    [] type = "VECTOR" -> "NodeSocketVector"
    [] type = "SHADER" -> "NodeSocketShader"

\* the index loop of _record_connection: the first socket that is the link's
\* socket or has its name
record_socket_index(sockets, socket) ==
  SetMin({ i \in Indices(sockets) :
             i = socket \/ At(sockets, i).name = At(sockets, socket).name })

\* MATERIAL_OT_disconnect_all_connections._record_connection: the record added
record_connection(nodes, link, material_name, replace_mode, shader_type) ==
  LET from_node == GetNode(nodes, link.from_node)
      to_node == GetNode(nodes, link.to_node)
      from_socket == At(from_node.outputs, link.from_socket)
      to_socket == At(to_node.inputs, link.to_socket)
  IN  [material_name |-> material_name,
       from_node_name |-> from_node.name,
       from_node_type |-> from_node.type,
       from_socket_name |-> from_socket.name,
       from_socket_index |-> record_socket_index(from_node.outputs, link.from_socket),
       from_socket_type |-> SocketIdname(from_socket.type),
       to_node_name |-> to_node.name,
       to_node_type |-> to_node.type,
       to_socket_name |-> to_socket.name,
       to_socket_index |-> record_socket_index(to_node.inputs, link.to_socket),
       to_socket_type |-> SocketIdname(to_socket.type),
       replace_mode |-> replace_mode,
       shader_type |-> shader_type]

\* a restore that ends at the first record it cannot resolve
restore_connections_from_snapshot_abort(acc, refused, snapshot, nodes, material_name) ==
  LET resolves(item) ==
        /\ HasNode(nodes, item.from_node_name) /\ HasNode(nodes, item.to_node_name)
        /\ item.from_socket_index < Len(GetNode(nodes, item.from_node_name).outputs)
        /\ item.to_socket_index < Len(GetNode(nodes, item.to_node_name).inputs)
      mine == SelectSeq(snapshot, LAMBDA item : item.material_name = material_name)
      stop == FirstIndex(mine, LAMBDA item : ~resolves(item))
  IN  FoldSeq(LAMBDA a, item :
                Try(a, "restore", refused, nodes, item.from_node_name,
                    item.from_socket_index, item.to_node_name, item.to_socket_index),
              acc, IF stop < 0 THEN mine ELSE SubSeq(mine, 1, stop))

\* MATERIAL_OT_reconnect_with_rules._restore_connections_from_snapshot
restore_connections_from_snapshot(acc, refused, snapshot, nodes, material_name) ==
  FoldSeq(LAMBDA a, item :
            IF item.material_name # material_name THEN a
            ELSE IF item.from_node_name = "" \/ item.to_node_name = "" THEN a
            ELSE IF \/ ~HasNode(nodes, item.from_node_name)
                    \/ ~HasNode(nodes, item.to_node_name)
              THEN a
            ELSE IF /\ item.from_socket_index
                         < Len(GetNode(nodes, item.from_node_name).outputs)
                    /\ item.to_socket_index < Len(GetNode(nodes, item.to_node_name).inputs)
              THEN Try(a, "restore", refused, nodes, item.from_node_name,
                       item.from_socket_index, item.to_node_name, item.to_socket_index)
              ELSE a,
          acc, snapshot)

\* ------------------------------------------------- state
VARIABLES
  materials,            \* bpy.data.materials: name -> [use_nodes, nodes, links]
  node_groups,          \* bpy.data.node_groups, in order
  selected_objects,     \* context.selected_objects
  collection_objects,   \* context.collection.all_objects
  props,                \* scene.shader_replacer_props, the settings
  connection_rules,     \* props.connection_rules
  connection_snapshot,  \* props.connection_snapshot
  processed_materials,  \* MaterialCache._processed_materials
  refused,              \* the socket type pairs for which links.new raises
  unavailable,          \* the node classes for which nodes.new raises
  ops,                  \* operator invocations so far
  last                  \* the last operator invocation: what it read and did

vars ==
  << materials, node_groups, selected_objects, collection_objects, props,
     connection_rules, connection_snapshot, processed_materials, refused, unavailable,
     ops, last >>

\* the materials of the slots an object loop visits, in order:
\* mesh objects, slots with a material that uses nodes
visited_materials(mats, objects) ==
  LET slots(obj) ==
        IF obj.type = "MESH"
          THEN SelectSeq(obj.material_slots, LAMBDA m : m # "" /\ mats[m].use_nodes)
          ELSE <<>>
  IN  FoldSeq(LAMBDA acc, obj : acc \o slots(obj), <<>>, objects)

\* a scope test that passes every material
should_process_any(p, mat) == TRUE

\* should_process of disconnect and reconnect
should_process(p, mat) ==
  IF p.replace_mode \in {"MATERIAL", "MATERIAL_SPECIFIC"} /\ p.target_material # ""
    THEN mat = p.target_material
    ELSE TRUE

\* get_shader_types_to_disconnect: 'ALL', a built-in type, or 'GROUP:<name>'
get_shader_types_to_disconnect(p) ==
  LET builtin(b) == IF b # "" /\ b # "NONE" THEN << [kind |-> "TYPE", name |-> b] >> ELSE <<>>
      group(g) == IF g # "" THEN << [kind |-> "GROUP", name |-> g] >> ELSE <<>>
  IN  IF p.replace_mode = "SPECIFIC"
        THEN builtin(p.specific_builtin_shader) \o group(p.specific_nodegroup)
      ELSE IF p.replace_mode = "MATERIAL_SPECIFIC"
        THEN builtin(p.material_specific_builtin_shader) \o group(p.material_specific_nodegroup)
      ELSE IF p.replace_mode = "MATERIAL"
        THEN IF p.target_material # "" THEN << [kind |-> "ALL", name |-> ""] >> ELSE <<>>
      ELSE << [kind |-> "ALL", name |-> ""] >>

\* should_remove of the disconnect loop, for one link
should_remove(nodes, link, shader_types) ==
  LET from_node == GetNode(nodes, link.from_node)
      to_node == GetNode(nodes, link.to_node)
  IN  \E i \in 1..Len(shader_types) :
        LET shader_type == shader_types[i]
        IN  IF shader_type.kind = "GROUP"
              THEN \/ /\ from_node.type = "GROUP"
                      /\ from_node.node_tree # ""
                      /\ from_node.node_tree = shader_type.name
                   \/ /\ to_node.type = "GROUP"
                      /\ to_node.node_tree # ""
                      /\ to_node.node_tree = shader_type.name
              ELSE \/ from_node.type = shader_type.name
                   \/ to_node.type = shader_type.name

\* the body of the slot loop of disconnect for one visited material
disconnect_material(acc, p, shader_types, mat) ==
  LET g == acc.materials[mat]
      all == \E i \in 1..Len(shader_types) : shader_types[i].kind = "ALL"
      remove(l) == all \/ should_remove(g.nodes, l, shader_types)
      links_to_record == SelectSeq(g.links, remove)
      shader_type_str == IF shader_types # <<>> THEN shader_types
                         ELSE << [kind |-> "ALL", name |-> ""] >>
      records == [i \in 1..Len(links_to_record) |->
                    record_connection(g.nodes, links_to_record[i], mat,
                                      p.replace_mode, shader_type_str)]
  IN  IF ~should_process(p, mat) THEN acc
      ELSE [materials |-> [acc.materials EXCEPT ![mat].links =
                             SelectSeq(g.links, LAMBDA l : ~remove(l))],
            snapshot |-> acc.snapshot \o records,
            count |-> acc.count + Len(links_to_record)]

\* a disconnect that empties the store before it validates
disconnect_execute_clear_first(mats, objects, snapshot, p) ==
  LET shader_types == get_shader_types_to_disconnect(p)
      cancelled == [status |-> "CANCELLED", materials |-> mats,
                    snapshot |-> <<>>, count |-> 0]
  IN  IF objects = <<>> THEN cancelled
      ELSE IF p.replace_mode = "MATERIAL" /\ p.target_material = "" THEN cancelled
      ELSE FoldSeq(LAMBDA acc, mat : disconnect_material(acc, p, shader_types, mat),
                   [materials |-> mats, snapshot |-> <<>>, count |-> 0],
                   visited_materials(mats, objects))
             @@ [status |-> "FINISHED"]

\* a disconnect that adds to the store it finds
disconnect_execute_keep_store(mats, objects, snapshot, p) ==
  LET shader_types == get_shader_types_to_disconnect(p)
      cancelled == [status |-> "CANCELLED", materials |-> mats,
                    snapshot |-> snapshot, count |-> 0]
  IN  IF objects = <<>> THEN cancelled
      ELSE IF p.replace_mode = "MATERIAL" /\ p.target_material = "" THEN cancelled
      ELSE FoldSeq(LAMBDA acc, mat : disconnect_material(acc, p, shader_types, mat),
                   [materials |-> mats, snapshot |-> snapshot, count |-> 0],
                   visited_materials(mats, objects))
             @@ [status |-> "FINISHED"]

\* MATERIAL_OT_disconnect_all_connections.execute
disconnect_execute(mats, objects, snapshot, p) ==
  LET shader_types == get_shader_types_to_disconnect(p)
      cancelled == [status |-> "CANCELLED", materials |-> mats,
                    snapshot |-> snapshot, count |-> 0]
  IN  IF objects = <<>> THEN cancelled
      ELSE IF p.replace_mode = "MATERIAL" /\ p.target_material = "" THEN cancelled
      ELSE FoldSeq(LAMBDA acc, mat : disconnect_material(acc, p, shader_types, mat),
                   [materials |-> mats, snapshot |-> <<>>, count |-> 0],
                   visited_materials(mats, objects))
             @@ [status |-> "FINISHED"]

\* a reconnect that restores the snapshot before it applies the rules
reconnect_material_restore_first(acc, rf, p, rules, snapshot, mat) ==
  LET g == acc.materials[mat]
      start == [links |-> g.links, count |-> 0, log |-> <<>>]
  IN  IF mat \in acc.processed \/ ~should_process(p, mat) THEN acc
      ELSE
        With(IF p.auto_connect
               THEN apply_auto_connections(rf, g.nodes, g.links, p.auto_connect)
               ELSE start,
             LAMBDA auto :
        With(IF snapshot # <<>>
               THEN restore_connections_from_snapshot(
                      [start EXCEPT !.links = auto.links], rf, snapshot, g.nodes, mat)
               ELSE [start EXCEPT !.links = auto.links],
             LAMBDA restored :
        With(apply_rules([start EXCEPT !.links = restored.links], rf, g.nodes, rules),
             LAMBDA ruled :
               [materials |-> [acc.materials EXCEPT ![mat].links = ruled.links],
                processed |-> acc.processed \cup {mat},
                auto_connect_count |-> acc.auto_connect_count + auto.count,
                custom_rule_count |-> acc.custom_rule_count + ruled.count,
                restored_count |-> acc.restored_count + restored.count,
                log |-> acc.log \o auto.log \o restored.log \o ruled.log,
                stages |-> Append(acc.stages,
                             [material |-> mat, before |-> g.links,
                              after_auto |-> auto.links, after_rules |-> ruled.links,
                              after_restore |-> ruled.links, auto_log |-> auto.log,
                              rule_log |-> ruled.log, restore_log |-> restored.log,
                              restored_count |-> restored.count])])))

\* the body of the slot loop of reconnect for one visited material
reconnect_material(acc, rf, p, rules, snapshot, mat) ==
  LET g == acc.materials[mat]
      start == [links |-> g.links, count |-> 0, log |-> <<>>]
  IN  IF mat \in acc.processed \/ ~should_process(p, mat) THEN acc
      ELSE
        With(IF p.auto_connect
               THEN apply_auto_connections(rf, g.nodes, g.links, p.auto_connect)
               ELSE start,
             LAMBDA auto :
        With(apply_rules([start EXCEPT !.links = auto.links], rf, g.nodes, rules),
             LAMBDA ruled :
        With(IF snapshot # <<>>
               THEN restore_connections_from_snapshot(
                      [start EXCEPT !.links = ruled.links], rf, snapshot, g.nodes, mat)
               ELSE [start EXCEPT !.links = ruled.links],
             LAMBDA restored :
               [materials |-> [acc.materials EXCEPT ![mat].links = restored.links],
                processed |-> acc.processed \cup {mat},
                auto_connect_count |-> acc.auto_connect_count + auto.count,
                custom_rule_count |-> acc.custom_rule_count + ruled.count,
                restored_count |-> acc.restored_count + restored.count,
                log |-> acc.log \o auto.log \o ruled.log \o restored.log,
                stages |-> Append(acc.stages,
                             [material |-> mat, before |-> g.links,
                              after_auto |-> auto.links, after_rules |-> ruled.links,
                              after_restore |-> restored.links, auto_log |-> auto.log,
                              rule_log |-> ruled.log, restore_log |-> restored.log,
                              restored_count |-> restored.count])])))

\* MATERIAL_OT_reconnect_with_rules.execute
reconnect_execute(mats, objects, rf, rules, snapshot, p) ==
  LET start == [materials |-> mats, processed |-> {}, auto_connect_count |-> 0,
                custom_rule_count |-> 0, restored_count |-> 0, log |-> <<>>,
                stages |-> <<>>]
  IN  IF objects = <<>> THEN start @@ [status |-> "CANCELLED"]
      ELSE FoldSeq(LAMBDA acc, mat : reconnect_material(acc, rf, p, rules, snapshot, mat),
                   start, visited_materials(mats, objects))
             @@ [status |-> "FINISHED"]

\* ------------------------------------------------- host node catalogue
\* the sockets nodes.new gives a node of a built-in type
NodeSockets(type) ==
  CASE type = "BSDF_PRINCIPLED" ->
         [inputs |-> << Sock("Base Color", "RGBA"), Sock("Metallic", "VALUE"),
                        Sock("Roughness", "VALUE"), Sock("Alpha", "VALUE"),
                        Sock("Normal", "VECTOR") >>,
          outputs |-> << Sock("BSDF", "SHADER") >>]
    [] type = "BSDF_DIFFUSE" ->
         [inputs |-> << Sock("Color", "RGBA"), Sock("Roughness", "VALUE"),
                        Sock("Normal", "VECTOR") >>,
          outputs |-> << Sock("BSDF", "SHADER") >>]
    [] type = "MIX_SHADER" ->
         [inputs |-> << Sock("Fac", "VALUE"), Sock("Shader", "SHADER"),
                        Sock("Shader", "SHADER") >>,
          outputs |-> << Sock("Shader", "SHADER") >>]
    [] type = "TEX_IMAGE" ->
         [inputs |-> << Sock("Vector", "VECTOR") >>,
          outputs |-> << Sock("Color", "RGBA"), Sock("Alpha", "VALUE") >>]
    [] type = "NORMAL_MAP" ->
         [inputs |-> << Sock("Strength", "VALUE"), Sock("Color", "RGBA") >>,
          outputs |-> << Sock("Normal", "VECTOR") >>]
    [] type = "OUTPUT_MATERIAL" ->
         [inputs |-> << Sock("Surface", "SHADER"), Sock("Volume", "SHADER"),
                        Sock("Displacement", "VECTOR") >>,
          outputs |-> <<>>]
    [] type = "RGB" ->
         [inputs |-> <<>>, outputs |-> << Sock("Color", "RGBA") >>]
    [] type = "TEX_NOISE" ->
         [inputs |-> << Sock("Vector", "VECTOR") >>,
          outputs |-> << Sock("Fac", "VALUE"), Sock("Color", "RGBA") >>]
    [] type = "SEPARATE_COLOR" ->
         [inputs |-> << Sock("Color", "RGBA") >>,
          outputs |-> << Sock("Red", "VALUE"), Sock("Green", "VALUE"),
                         Sock("Blue", "VALUE") >>]
    [] type = "VALUE" ->
         [inputs |-> <<>>, outputs |-> << Sock("Value", "VALUE") >>]

\* the node type behind a node class name
ClassType(bl_idname) ==
  CASE bl_idname = "ShaderNodeBsdfPrincipled" -> "BSDF_PRINCIPLED"
    [] bl_idname = "ShaderNodeBsdfDiffuse" -> "BSDF_DIFFUSE"
    [] bl_idname = "ShaderNodeMixShader" -> "MIX_SHADER"
    [] bl_idname = "ShaderNodeGroup" -> "GROUP"

\* a name and its numbered variants, in the order the host tries them
NameVariants(base) ==
  CASE base = "BSDF_PRINCIPLED" ->
         << "BSDF_PRINCIPLED", "BSDF_PRINCIPLED.001", "BSDF_PRINCIPLED.002",
            "BSDF_PRINCIPLED.003" >>
    [] base = "Toon" -> << "Toon", "Toon.001", "Toon.002", "Toon.003" >>

\* node.name = base: the host keeps names unique within a graph
UniqueName(nodes, base) ==
  Head(SelectSeq(NameVariants(base), LAMBDA nm : ~HasNode(nodes, nm)))

\* the node group (of bpy.data.node_groups) of type SHADER with this name, or <<>>
shader_node_group(groups, name) ==
  SelectSeq(groups, LAMBDA ng : ng.type = "SHADER" /\ ng.name = name)

\* nodes.new(type), then node_tree, name and label set: the graph's nodes with
\* the new node last
nodes_new(nodes, bl_idname, node_group, name) ==
  LET type == ClassType(bl_idname)
      sockets == IF type = "GROUP"
                   THEN [inputs |-> node_group.inputs, outputs |-> node_group.outputs]
                   ELSE NodeSockets(type)
  IN  Append(nodes,
             [name |-> UniqueName(nodes, name), label |-> name, type |-> type,
              node_tree |-> IF type = "GROUP" THEN node_group.name ELSE "",
              inputs |-> sockets.inputs, outputs |-> sockets.outputs])

\* ------------------------------------------------- batch replace
\* MATERIAL_OT_batch_replace_shader._find_best_input_socket: the index of the
\* best unconnected input, -1 without one.  Scores are ten times the code's,
\* which keeps the weights 0.8 and 0.6 in the integers.
input_socket_score(inputs, idx, original_name, original_type) ==
  LET inp == At(inputs, idx)
      a == Lower[original_name]
      b == Lower[inp.name]
      name_score == IF inp.name = original_name THEN 100
                    ELSE IF b = a THEN 90
                    ELSE IF Contains(a, b) \/ Contains(b, a) THEN 50
                    ELSE 0
      semantic_score == are_semantically_compatible(
                          Semantic[original_name],
                          Semantic[inp.name])
      type_score == get_type_compatibility_score(original_type, inp.type)
      position_score == IF 10 - idx > 0 THEN 10 - idx ELSE 0
  IN  name_score * 10 + semantic_score * 8 + type_score * 6 + position_score * 10

\* a socket search whose sort is ascending: the lowest score comes first
find_best_input_socket_ascending(shader_node, original_name, original_type, connected_inputs) ==
  With([i \in Indices(shader_node.inputs) |->
          input_socket_score(shader_node.inputs, i, original_name, original_type)],
       LAMBDA score :
         LET candidates == Indices(shader_node.inputs) \ connected_inputs
             best == SetMin({ i \in candidates : \A j \in candidates : score[i] <= score[j] })
         IN  IF candidates # {} /\ score[best] >= 300 THEN best ELSE -1)

find_best_input_socket(shader_node, original_name, original_type, connected_inputs) ==
  With([i \in Indices(shader_node.inputs) |->
          input_socket_score(shader_node.inputs, i, original_name, original_type)],
       LAMBDA score :
         LET candidates == Indices(shader_node.inputs) \ connected_inputs
             best == SetMin({ i \in candidates : \A j \in candidates : score[j] <= score[i] })
         IN  IF candidates # {} /\ score[best] >= 300 THEN best ELSE -1)

\* MATERIAL_OT_batch_replace_shader._find_best_output_socket
find_best_output_socket(shader_node, original_name, original_type) ==
  LET outs == shader_node.outputs
      by_name == FirstIndex(outs, LAMBDA o : o.name = original_name)
      by_lower == FirstIndex(outs, LAMBDA o :
                    Lower[o.name] = Lower[original_name])
      by_type == FirstIndex(outs, LAMBDA o : o.type = original_type)
  IN  IF by_name >= 0 THEN by_name
      ELSE IF by_lower >= 0 THEN by_lower
      ELSE IF by_type >= 0 THEN by_type
      ELSE IF Len(outs) > 0 THEN 0
      ELSE -1

\* the elements of s, each once, in the order of first appearance
Dedup(s) ==
  FoldSeq(LAMBDA a, x : IF \E i \in 1..Len(a) : a[i] = x THEN a ELSE Append(a, x),
          <<>>, s)

\* the captured links in the order the code walks them: socket names in the
\* order of their first link, and under a name its links in graph order
capture_order(conns) ==
  FoldSeq(LAMBDA a, nm : a \o SelectSeq(conns, LAMBDA c : c.socket_name = nm),
          <<>>, Dedup([i \in 1..Len(conns) |-> conns[i].socket_name]))

\* input_links of replace_material_shaders
capture_input_links(g, old_shader) ==
  LET mine == SelectSeq(g.links, LAMBDA l : l.to_node = old_shader.name)
      conn(l) ==
        LET from_node == GetNode(g.nodes, l.from_node)
        IN  [socket_name |-> At(old_shader.inputs, l.to_socket).name,
             from_node |-> l.from_node,
             from_node_type |-> from_node.type,
             from_socket |-> At(from_node.outputs, l.from_socket).name,
             from_socket_type |-> At(from_node.outputs, l.from_socket).type,
             from_socket_index |-> l.from_socket,
             to_socket_index |-> l.to_socket,
             to_socket_type |-> At(old_shader.inputs, l.to_socket).type]
  IN  capture_order([i \in 1..Len(mine) |-> conn(mine[i])])

\* output_links of replace_material_shaders
capture_output_links(g, old_shader) ==
  LET mine == SelectSeq(g.links, LAMBDA l : l.from_node = old_shader.name)
      conn(l) ==
        LET to_node == GetNode(g.nodes, l.to_node)
        IN  [socket_name |-> At(old_shader.outputs, l.from_socket).name,
             to_node |-> l.to_node,
             to_node_type |-> to_node.type,
             to_socket |-> At(to_node.inputs, l.to_socket).name,
             to_socket_type |-> At(to_node.inputs, l.to_socket).type,
             to_socket_index |-> l.to_socket,
             from_socket_index |-> l.from_socket,
             from_socket_type |-> At(old_shader.outputs, l.from_socket).type]
  IN  capture_order([i \in 1..Len(mine) |-> conn(mine[i])])

\* a socket by its captured index, else the first of its captured name, else -1
captured_socket(sockets, index, name) ==
  IF 0 <= index /\ index < Len(sockets) THEN index
  ELSE FirstIndex(sockets, LAMBDA sk : sk.name = name)

\* the surface input of the replacement code: 'Surface', else the first input
surface_input(output_node) ==
  LET i == FirstIndex(output_node.inputs, LAMBDA sk : sk.name = "Surface")
  IN  IF i >= 0 THEN i ELSE IF Len(output_node.inputs) > 0 THEN 0 ELSE -1

\* an input reconnection that does not record the inputs it has linked
connect_inputs_forgets(acc, rf, nodes, new_shader, input_links) ==
  FoldSeq(LAMBDA a, conn :
            IF ~HasNode(nodes, conn.from_node) THEN a
            ELSE
              With(captured_socket(GetNode(nodes, conn.from_node).outputs,
                                   conn.from_socket_index, conn.from_socket),
                   LAMBDA source_socket :
              With(find_best_input_socket(new_shader, conn.socket_name,
                                          conn.to_socket_type, a.connected_inputs),
                   LAMBDA target_socket :
                     IF source_socket < 0 THEN a
                     ELSE IF target_socket < 0 THEN a
                     ELSE Try(a, "replace_input", rf, nodes, conn.from_node,
                              source_socket, new_shader.name, target_socket))),
          acc, input_links)

\* the input re-connection loop of one replacement
connect_inputs(acc, rf, nodes, new_shader, input_links) ==
  FoldSeq(LAMBDA a, conn :
            IF ~HasNode(nodes, conn.from_node) THEN a
            ELSE
              With(captured_socket(GetNode(nodes, conn.from_node).outputs,
                                   conn.from_socket_index, conn.from_socket),
                   LAMBDA source_socket :
              With(find_best_input_socket(new_shader, conn.socket_name,
                                          conn.to_socket_type, a.connected_inputs),
                   LAMBDA target_socket :
                     IF source_socket < 0 THEN a
                     ELSE IF target_socket < 0 THEN a
                     ELSE With(Try(a, "replace_input", rf, nodes, conn.from_node,
                                   source_socket, new_shader.name, target_socket),
                               LAMBDA tried :
                                 IF LastOk(tried)
                                   THEN [tried EXCEPT !.connected_inputs =
                                                        @ \cup {target_socket}]
                                   ELSE tried))),
          acc, input_links)

\* the output re-connection loop of one replacement
connect_outputs(acc, rf, nodes, new_shader, output_links) ==
  FoldSeq(LAMBDA a, conn :
            IF ~HasNode(nodes, conn.to_node) THEN a
            ELSE
              With(GetNode(nodes, conn.to_node), LAMBDA target_node :
              With(find_shader_output(new_shader), LAMBDA shader_output :
              With(surface_input(target_node), LAMBDA surface :
                IF /\ target_node.type = "OUTPUT_MATERIAL"
                   /\ ~a.output_connected_to_material
                   /\ shader_output >= 0
                   /\ surface >= 0
                  THEN With(Try(a, "replace_surface", rf, nodes, new_shader.name,
                                shader_output, conn.to_node, surface),
                            LAMBDA to_surface :
                              [to_surface EXCEPT !.output_connected_to_material =
                                                   LastOk(to_surface)])
                ELSE
                  With(captured_socket(target_node.inputs, conn.to_socket_index,
                                       conn.to_socket),
                       LAMBDA target_socket :
                  With(find_best_output_socket(new_shader, conn.socket_name,
                                               conn.from_socket_type),
                       LAMBDA source_socket :
                         IF target_socket < 0 THEN a
                         ELSE IF source_socket < 0 THEN a
                         ELSE Try(a, "replace_output", rf, nodes, new_shader.name,
                                  source_socket, conn.to_node, target_socket)))))),
          acc, output_links)

\* a replacement without the fallback
connect_fallback_never(acc, rf, nodes, new_shader) == acc

\* the fallback of one replacement: the first output node's surface input
connect_fallback(acc, rf, nodes, new_shader) ==
  LET outs == SelectSeq(nodes, LAMBDA n : n.type = "OUTPUT_MATERIAL")
      output_node == Head(outs)
      shader_output == find_shader_output(new_shader)
      surface == surface_input(output_node)
  IN  IF acc.output_connected_to_material THEN acc
      ELSE IF outs = <<>> THEN acc
      ELSE IF shader_output < 0 THEN acc
      ELSE IF surface < 0 THEN acc
      ELSE With(Try(acc, "replace_fallback", rf, nodes, new_shader.name, shader_output,
                    output_node.name, surface),
                LAMBDA tried :
                  [tried EXCEPT !.output_connected_to_material = LastOk(tried)])

\* shaders_to_replace of replace_material_shaders: node names, in node order
shaders_to_replace(g, p, target_shader_name, specific_shader_name) ==
  LET nodes_connected_to_output ==
        { g.links[i].from_node : i \in { j \in 1..Len(g.links) :
            GetNode(g.nodes, g.links[j].to_node).type = "OUTPUT_MATERIAL" } }
      all(node) ==
        IF node.type \in SHADER_NODE_TYPES THEN TRUE
        ELSE IF node.type = "GROUP" /\ node.node_tree # ""
          THEN /\ \/ has_shader_output(node)
                  \/ node.name \in nodes_connected_to_output
                  \/ AnyKeyword(SHADER_KEYWORDS, Lower[node.node_tree])
               /\ node.node_tree # target_shader_name
        ELSE FALSE
      specific(node) ==
        IF node.type = "GROUP" /\ node.node_tree # ""
          THEN node.node_tree = specific_shader_name
          ELSE node.type = specific_shader_name
      chosen == IF p.replace_mode \in {"ALL", "MATERIAL"} THEN SelectSeq(g.nodes, all)
                ELSE IF p.replace_mode \in {"SPECIFIC", "MATERIAL_SPECIFIC"}
                  THEN SelectSeq(g.nodes, specific)
                ELSE <<>>
  IN  [i \in 1..Len(chosen) |-> chosen[i].name]

\* one pass of the replacement loop of replace_material_shaders
replace_shader(acc, groups, rf, missing, p, target_shader_name, old_shader_name) ==
  LET g == acc.graph
      old_shader == GetNode(g.nodes, old_shader_name)
      removed == nodes_remove(g, old_shader_name)
      node_group == shader_node_group(groups, target_shader_name)
      node_type == IF node_group # <<>> THEN "ShaderNodeGroup"
                   ELSE get_shader_class_name(target_shader_name)
      start == [links |-> removed.links, count |-> 0, log |-> <<>>,
                connected_inputs |-> {}, output_connected_to_material |-> FALSE]
  IN  IF ~HasNode(g.nodes, old_shader_name) THEN acc
      ELSE IF node_type \in missing
        THEN [acc EXCEPT !.graph = removed,
                         !.failed = Append(@, [old_shader |-> old_shader,
                                               graph |-> removed])]
      ELSE
        With(capture_input_links(g, old_shader), LAMBDA input_links :
        With(capture_output_links(g, old_shader), LAMBDA output_links :
        With(nodes_new(removed.nodes, node_type,
                       IF node_group # <<>> THEN Head(node_group) ELSE <<>>,
                       target_shader_name),
             LAMBDA nodes :
        With(nodes[Len(nodes)], LAMBDA new_shader :
        With(IF p.auto_connect
               THEN connect_fallback(
                      connect_outputs(
                        connect_inputs(start, rf, nodes, new_shader, input_links),
                        rf, nodes, new_shader, output_links),
                      rf, nodes, new_shader)
               ELSE start,
             LAMBDA done :
        With([g EXCEPT !.nodes = nodes, !.links = done.links], LAMBDA graph :
          [graph |-> graph,
           replaced_count |-> acc.replaced_count + 1,
           failed |-> acc.failed,
           log |-> acc.log \o done.log,
           cycles |-> Append(acc.cycles,
                        [old_shader |-> old_shader, new_shader |-> new_shader,
                         input_links |-> input_links, output_links |-> output_links,
                         graph |-> graph, attempts |-> done.log,
                         output_connected_to_material |->
                           done.output_connected_to_material])]))))))

\* a replacement loop that ends at the first target whose node cannot be made
replace_material_shaders_abort(g, groups, rf, missing, p, target_shader_name, specific_shader_name) ==
  FoldSeq(LAMBDA acc, old_shader_name :
            IF acc.failed # <<>> THEN acc
            ELSE replace_shader(acc, groups, rf, missing, p, target_shader_name,
                                old_shader_name),
          [graph |-> g, replaced_count |-> 0, failed |-> <<>>, log |-> <<>>,
           cycles |-> <<>>],
          shaders_to_replace(g, p, target_shader_name, specific_shader_name))

\* MATERIAL_OT_batch_replace_shader.replace_material_shaders
replace_material_shaders(g, groups, rf, missing, p, target_shader_name, specific_shader_name) ==
  FoldSeq(LAMBDA acc, old_shader_name :
            replace_shader(acc, groups, rf, missing, p, target_shader_name,
                           old_shader_name),
          [graph |-> g, replaced_count |-> 0, failed |-> <<>>, log |-> <<>>,
           cycles |-> <<>>],
          shaders_to_replace(g, p, target_shader_name, specific_shader_name))

\* a built-in choice when one is made, else the node group's name, else ""
chosen_shader_name(builtin, nodegroup) ==
  IF builtin # "" /\ builtin # "NONE" THEN builtin ELSE nodegroup

\* MATERIAL_OT_batch_replace_shader.get_target_objects
get_target_objects(selected, collection, target_type) ==
  IF target_type = "OBJECTS" THEN selected
  ELSE IF target_type = "COLLECTION" THEN collection
  ELSE <<>>

\* MaterialCache.get_result
cache_result(cache, mat) == (CHOOSE e \in cache : e[1] = mat)[2]

\* a run that starts from the entries the run before it left
MaterialCache_keep(cache) == cache

\* MaterialCache.clear
MaterialCache_clear(cache) == {}

\* the body of the slot loop of batch replace for one visited material
replace_visited(acc, groups, rf, missing, p, target_shader_name, specific_shader_name, mat) ==
  IF \E e \in acc.cache : e[1] = mat
    THEN With(cache_result(acc.cache, mat), LAMBDA result :
           [acc EXCEPT !.total_materials = @ + 1,
                       !.replaced_materials = @ + (IF result > 0 THEN 1 ELSE 0),
                       !.replaced_shaders = @ + (IF result > 0 THEN result ELSE 0)])
    ELSE With(replace_material_shaders(acc.materials[mat], groups, rf, missing, p,
                                       target_shader_name, specific_shader_name),
              LAMBDA run :
                [materials |-> [acc.materials EXCEPT ![mat] = run.graph],
                 cache |-> acc.cache \cup { <<mat, run.replaced_count>> },
                 total_materials |-> acc.total_materials + 1,
                 replaced_materials |->
                   acc.replaced_materials + (IF run.replaced_count > 0 THEN 1 ELSE 0),
                 replaced_shaders |->
                   acc.replaced_shaders
                     + (IF run.replaced_count > 0 THEN run.replaced_count ELSE 0),
                 log |-> acc.log \o run.log,
                 runs |-> Append(acc.runs,
                            [material |-> mat, before |-> acc.materials[mat],
                             result |-> run.replaced_count, cycles |-> run.cycles,
                             failed |-> run.failed])])

\* a validation that asks MATERIAL_SPECIFIC mode for the identity of the node
\* to replace as it asks SPECIFIC mode
batch_validate_alike(mats, groups, target_objects, p) ==
  LET target_shader_name == chosen_shader_name(p.builtin_shader, p.shader_nodegroup)
      node_group_exists == shader_node_group(groups, target_shader_name) # <<>>
  IN  IF target_shader_name = "" THEN "no_target_shader"
      ELSE IF ~node_group_exists /\ ~is_valid_builtin_shader(target_shader_name)
        THEN "shader_not_found"
      ELSE IF /\ p.replace_mode = "SPECIFIC"
              /\ chosen_shader_name(p.specific_builtin_shader, p.specific_nodegroup) = ""
        THEN "no_specific_shader"
      ELSE IF /\ p.replace_mode = "MATERIAL_SPECIFIC"
              /\ chosen_shader_name(p.material_specific_builtin_shader,
                                    p.material_specific_nodegroup) = ""
        THEN "no_specific_shader"
      ELSE IF p.replace_mode \in {"MATERIAL", "MATERIAL_SPECIFIC"}
        THEN IF p.target_material = "" THEN "no_target_material"
             ELSE IF ~mats[p.target_material].use_nodes THEN "material_without_nodes"
             ELSE ""
      ELSE IF target_objects = <<>> THEN "no_target_objects"
      ELSE ""

\* the checks of MATERIAL_OT_batch_replace_shader.execute, in its order: the
\* report of the first that fails, "" when none does
batch_validate(mats, groups, target_objects, p) ==
  LET target_shader_name == chosen_shader_name(p.builtin_shader, p.shader_nodegroup)
      node_group_exists == shader_node_group(groups, target_shader_name) # <<>>
  IN  IF target_shader_name = "" THEN "no_target_shader"
      ELSE IF ~node_group_exists /\ ~is_valid_builtin_shader(target_shader_name)
        THEN "shader_not_found"
      ELSE IF /\ p.replace_mode = "SPECIFIC"
              /\ chosen_shader_name(p.specific_builtin_shader, p.specific_nodegroup) = ""
        THEN "no_specific_shader"
      ELSE IF p.replace_mode \in {"MATERIAL", "MATERIAL_SPECIFIC"}
        THEN IF p.target_material = "" THEN "no_target_material"
             ELSE IF ~mats[p.target_material].use_nodes THEN "material_without_nodes"
             ELSE ""
      ELSE IF target_objects = <<>> THEN "no_target_objects"
      ELSE ""

\* MATERIAL_OT_batch_replace_shader.execute
batch_execute(mats, groups, selected, collection, cache, rf, missing, p) ==
  LET target_shader_name == chosen_shader_name(p.builtin_shader, p.shader_nodegroup)
      specific_shader_name ==
        IF p.replace_mode = "SPECIFIC"
          THEN chosen_shader_name(p.specific_builtin_shader, p.specific_nodegroup)
          ELSE ""
      material_specific_shader_name ==
        chosen_shader_name(p.material_specific_builtin_shader,
                           p.material_specific_nodegroup)
      target_objects == get_target_objects(selected, collection, p.target_type)
      start == [materials |-> mats, cache |-> cache, total_materials |-> 0,
                replaced_materials |-> 0, replaced_shaders |-> 0, log |-> <<>>,
                runs |-> <<>>]
      invalid == batch_validate(mats, groups, target_objects, p)
      mat == p.target_material
  IN  IF invalid # "" THEN start @@ [status |-> "CANCELLED", report |-> invalid]
      ELSE IF p.replace_mode \in {"MATERIAL", "MATERIAL_SPECIFIC"}
        THEN With(replace_material_shaders(
                    mats[mat], groups, rf, missing, p, target_shader_name,
                    IF p.replace_mode = "MATERIAL" THEN ""
                    ELSE material_specific_shader_name),
                  LAMBDA run :
                    [materials |-> [mats EXCEPT ![mat] = run.graph],
                     cache |-> MaterialCache_clear(cache),
                     total_materials |-> 1,
                     replaced_materials |-> IF run.replaced_count > 0 THEN 1 ELSE 0,
                     replaced_shaders |-> run.replaced_count, log |-> run.log,
                     runs |-> << [material |-> mat, before |-> mats[mat],
                                  result |-> run.replaced_count, cycles |-> run.cycles,
                                  failed |-> run.failed] >>,
                     status |-> "FINISHED",
                     report |-> IF run.replaced_count > 0 THEN "replaced"
                                ELSE "nothing_to_replace"])
      ELSE With(FoldSeq(LAMBDA acc, m :
                          replace_visited(acc, groups, rf, missing, p, target_shader_name,
                                          specific_shader_name, m),
                        [start EXCEPT !.cache = MaterialCache_clear(cache)],
                        visited_materials(mats, target_objects)),
                LAMBDA looped :
                  looped @@ [status |-> "FINISHED",
                             report |-> IF looped.replaced_shaders = 0
                                          THEN "nothing_to_replace"
                                          ELSE "replaced"])

\* ------------------------------------------------- scenes
Node(name, label, type) ==
  [name |-> name, label |-> label, type |-> type, node_tree |-> "",
   inputs |-> NodeSockets(type).inputs, outputs |-> NodeSockets(type).outputs]

Link(from_node, from_socket, to_node, to_socket) ==
  [from_node |-> from_node, from_socket |-> from_socket,
   to_node |-> to_node, to_socket |-> to_socket]

\* bpy.data.node_groups: a shader group and a group of another tree type
NodeGroups ==
  << [name |-> "Toon", type |-> "SHADER",
      inputs |-> << Sock("Color", "RGBA"), Sock("Normal Alpha", "VALUE") >>,
      outputs |-> << Sock("Shader", "SHADER") >>],
     [name |-> "Geo", type |-> "GEOMETRY", inputs |-> <<>>, outputs |-> <<>>] >>

TexNode == Node("Image Texture", "Tex1", "TEX_IMAGE")
DiffuseNode == Node("Diffuse BSDF", "", "BSDF_DIFFUSE")
PrincipledNode == Node("Principled BSDF", "", "BSDF_PRINCIPLED")
MixNode == Node("Mix Shader", "", "MIX_SHADER")
NormalMapNode == Node("Normal Map", "", "NORMAL_MAP")
OutNode == Node("Material Output", "", "OUTPUT_MATERIAL")
ToonNode ==
  [name |-> "Group", label |-> "", type |-> "GROUP", node_tree |-> "Toon",
   inputs |-> NodeGroups[1].inputs, outputs |-> NodeGroups[1].outputs]

\* a texture into a diffuse shader into the output
GraphTexDiffuse ==
  [use_nodes |-> TRUE,
   nodes |-> << TexNode, DiffuseNode, OutNode >>,
   links |-> << Link("Image Texture", 0, "Diffuse BSDF", 0),
                Link("Diffuse BSDF", 0, "Material Output", 0) >>]

\* two shaders mixed: the mix node has two inputs named "Shader"
GraphMix ==
  [use_nodes |-> TRUE,
   nodes |-> << DiffuseNode, PrincipledNode, MixNode, OutNode >>,
   links |-> << Link("Diffuse BSDF", 0, "Mix Shader", 1),
                Link("Principled BSDF", 0, "Mix Shader", 2),
                Link("Mix Shader", 0, "Material Output", 0) >>]

\* a texture whose alpha feeds the base colour of a principled shader
GraphTexPrincipled ==
  [use_nodes |-> TRUE,
   nodes |-> << TexNode, PrincipledNode, OutNode >>,
   links |-> << Link("Image Texture", 1, "Principled BSDF", 0),
                Link("Principled BSDF", 0, "Material Output", 0) >>]

\* a texture and a normal map around a shader group
GraphToon ==
  [use_nodes |-> TRUE,
   nodes |-> << TexNode, ToonNode, NormalMapNode, OutNode >>,
   links |-> << Link("Image Texture", 0, "Group", 0),
                Link("Group", 0, "Material Output", 0) >>]

GraphDiffuse ==
  [use_nodes |-> TRUE,
   nodes |-> << DiffuseNode, OutNode >>,
   links |-> << Link("Diffuse BSDF", 0, "Material Output", 0) >>]

NoGraph == [use_nodes |-> FALSE, nodes |-> <<>>, links |-> <<>>]

Graphs == { GraphTexDiffuse, GraphMix, GraphTexPrincipled, GraphToon }

Object(type, material_slots) == [type |-> type, material_slots |-> material_slots]

\* the selection: an object that is no mesh, a mesh with an empty slot and a
\* material without nodes among its slots, and a second user of M1
Selection ==
  << Object("EMPTY", <<>>), Object("MESH", << "M1", "", "M2", "M3" >>),
     Object("MESH", << "M1" >>) >>

\* the objects of the active collection
Collection == << Object("MESH", << "M2" >>) >>

\* what the host refuses to link: nothing, or a non-shader output into a shader input
Permissive == {}
Strict == { <<"RGBA", "SHADER">>, <<"VALUE", "SHADER">>, <<"VECTOR", "SHADER">> }

Rule(source_match_mode, source, source_socket_index, target_match_mode, target, target_socket_index) ==
  [source_match_mode |-> source_match_mode,
   source_node_label |-> IF source_match_mode = "LABEL" THEN source ELSE "",
   source_node_type |-> IF source_match_mode = "TYPE" THEN source ELSE "",
   source_socket_index |-> source_socket_index,
   target_match_mode |-> target_match_mode,
   target_node_label |-> IF target_match_mode = "LABEL" THEN target ELSE "",
   target_node_type |-> IF target_match_mode = "TYPE" THEN target ELSE "",
   target_socket_index |-> target_socket_index]

NoRules == <<>>

TexToPrincipled == << Rule("LABEL", "Tex1", 0, "TYPE", "BSDF_PRINCIPLED", 0) >>

\* a rule the strict host refuses, a rule with an output index no texture
\* has, and a rule whose two sides match the same nodes
\* and a rule the strict host accepts
FourRules ==
  << Rule("LABEL", "Tex1", 0, "TYPE", "OUTPUT_MATERIAL", 0),
     Rule("TYPE", "TEX_IMAGE", 2, "LABEL", "bsdf", 1),
     Rule("LABEL", "bsdf", 0, "LABEL", "bsdf", 1),
     Rule("LABEL", "Tex1", 1, "LABEL", "bsdf", 1) >>

\* (connection rules, host policy)
Setups ==
  { << NoRules, Permissive >>, << NoRules, Strict >>,
    << TexToPrincipled, Permissive >>, << FourRules, Strict >> }

\* the settings: a destination, a mode with what it reads, auto-connect
Destination(builtin_shader, shader_nodegroup) ==
  [builtin_shader |-> builtin_shader, shader_nodegroup |-> shader_nodegroup]

Mode(replace_mode, target_type, target_material, builtin, nodegroup) ==
  [replace_mode |-> replace_mode, target_type |-> target_type,
   target_material |-> target_material,
   specific_builtin_shader |-> IF replace_mode = "SPECIFIC" THEN builtin ELSE "NONE",
   specific_nodegroup |-> IF replace_mode = "SPECIFIC" THEN nodegroup ELSE "",
   material_specific_builtin_shader |->
     IF replace_mode = "MATERIAL_SPECIFIC" THEN builtin ELSE "NONE",
   material_specific_nodegroup |->
     IF replace_mode = "MATERIAL_SPECIFIC" THEN nodegroup ELSE ""]

Modes ==
  { Mode("ALL", "OBJECTS", "", "NONE", ""),
    Mode("ALL", "COLLECTION", "", "NONE", ""),
    Mode("SPECIFIC", "OBJECTS", "", "NONE", ""),
    Mode("SPECIFIC", "OBJECTS", "", "BSDF_DIFFUSE", ""),
    Mode("SPECIFIC", "OBJECTS", "", "NONE", "Toon"),
    Mode("MATERIAL", "OBJECTS", "", "NONE", ""),
    Mode("MATERIAL", "OBJECTS", "M1", "NONE", ""),
    Mode("MATERIAL", "OBJECTS", "M3", "NONE", ""),
    Mode("MATERIAL_SPECIFIC", "OBJECTS", "", "NONE", ""),
    Mode("MATERIAL_SPECIFIC", "OBJECTS", "M3", "BSDF_DIFFUSE", ""),
    Mode("MATERIAL_SPECIFIC", "OBJECTS", "M1", "NONE", ""),
    Mode("MATERIAL_SPECIFIC", "OBJECTS", "M1", "BSDF_DIFFUSE", ""),
    Mode("MATERIAL_SPECIFIC", "OBJECTS", "M1", "NONE", "Toon") }

\* every mode with a destination that resolves; some modes without a
\* destination, and with a group that is no shader group
PropsSpace ==
  { d @@ m @@ [auto_connect |-> a] :
      d \in { Destination("BSDF_PRINCIPLED", ""), Destination("NONE", "Toon") },
      m \in Modes, a \in BOOLEAN }
  \cup
  { Destination("NONE", "") @@ m @@ [auto_connect |-> TRUE] :
      m \in { Mode("ALL", "OBJECTS", "", "NONE", ""),
              Mode("SPECIFIC", "OBJECTS", "", "BSDF_DIFFUSE", ""),
              Mode("MATERIAL", "OBJECTS", "M1", "NONE", ""),
              Mode("MATERIAL_SPECIFIC", "OBJECTS", "M1", "NONE", "") } }
  \cup
  { Destination("NONE", "Geo") @@ m @@ [auto_connect |-> TRUE] :
      m \in { Mode("ALL", "OBJECTS", "", "NONE", ""),
              Mode("MATERIAL_SPECIFIC", "OBJECTS", "M1", "BSDF_DIFFUSE", "") } }

\* ------------------------------------------------- the add-on as a state machine
\* what is kept of an invocation: the operator, its end and its report, the
\* graphs, the store, the cache and the selection it started from, its link
\* attempts, and the invocation before it
NoOperator ==
  [op |-> "none", status |-> "", report |-> "", before |-> <<>>,
   before_snapshot |-> <<>>, before_cache |-> {}, count |-> 0, log |-> <<>>,
   runs |-> <<>>, stages |-> <<>>, objects |-> <<>>,
   previous |-> [op |-> "none", status |-> "", before |-> <<>>]]

Init ==
  /\ \E g \in Graphs : materials = [m \in {"M1", "M2", "M3"} |->
                                      IF m = "M1" THEN g
                                      ELSE IF m = "M2" THEN GraphDiffuse ELSE NoGraph]
  /\ node_groups = NodeGroups
  /\ selected_objects = Selection
  /\ collection_objects = Collection
  /\ props \in PropsSpace
  /\ \E su \in Setups : connection_rules = su[1] /\ refused = su[2]
  /\ connection_snapshot = <<>>
  /\ processed_materials = {}
  /\ unavailable = {}
  /\ ops = 0
  /\ last = NoOperator

Ran(op, r, count) ==
  [op |-> op, status |-> r.status, report |-> r.report, before |-> materials,
   before_snapshot |-> connection_snapshot, before_cache |-> processed_materials,
   count |-> count, log |-> r.log, runs |-> r.runs, stages |-> r.stages,
   objects |-> selected_objects,
   previous |-> [op |-> last.op, status |-> last.status, before |-> last.before]]

\* material.batch_replace_shader
BatchReplace ==
  /\ ops < MaxOps
  /\ \E r \in { batch_execute(materials, node_groups, selected_objects, collection_objects,
                               processed_materials, refused, unavailable, props) } :
         /\ materials' = r.materials
         /\ processed_materials' = r.cache
         /\ last' = Ran("batch_replace", r @@ [stages |-> <<>>], r.replaced_shaders)
  /\ ops' = ops + 1
  /\ UNCHANGED << node_groups, selected_objects, collection_objects, props,
                  connection_rules, connection_snapshot, refused, unavailable >>

\* material.disconnect_all_connections
Disconnect ==
  /\ ops < MaxOps
  /\ \E r \in { disconnect_execute(materials, selected_objects, connection_snapshot,
                                    props) } :
         /\ materials' = r.materials
         /\ connection_snapshot' = r.snapshot
         /\ last' = Ran("disconnect",
                        r @@ [report |-> "", log |-> <<>>, runs |-> <<>>, stages |-> <<>>],
                        r.count)
  /\ ops' = ops + 1
  /\ UNCHANGED << node_groups, selected_objects, collection_objects, props,
                  connection_rules, processed_materials, refused, unavailable >>

\* a reconnect that uses the snapshot up
Reconnect_consuming ==
  /\ ops < MaxOps
  /\ \E r \in { reconnect_execute(materials, selected_objects, refused, connection_rules,
                                   connection_snapshot, props) } :
         /\ materials' = r.materials
         /\ last' = Ran("reconnect", r @@ [report |-> "", runs |-> <<>>],
                        r.auto_connect_count + r.custom_rule_count + r.restored_count)
  /\ connection_snapshot' = <<>>
  /\ ops' = ops + 1
  /\ UNCHANGED << node_groups, selected_objects, collection_objects, props,
                  connection_rules, processed_materials, refused, unavailable >>

\* material.reconnect_with_rules
Reconnect ==
  /\ ops < MaxOps
  /\ \E r \in { reconnect_execute(materials, selected_objects, refused, connection_rules,
                                   connection_snapshot, props) } :
         /\ materials' = r.materials
         /\ last' = Ran("reconnect", r @@ [report |-> "", runs |-> <<>>],
                        r.auto_connect_count + r.custom_rule_count + r.restored_count)
  /\ ops' = ops + 1
  /\ UNCHANGED << node_groups, selected_objects, collection_objects, props,
                  connection_rules, connection_snapshot, processed_materials, refused,
                  unavailable >>

\* material.clear_connection_snapshot
ClearSnapshot ==
  /\ ops < MaxOps
  /\ connection_snapshot' = <<>>
  /\ last' = Ran("clear_snapshot",
                 [status |-> "FINISHED", report |-> "", log |-> <<>>, runs |-> <<>>,
                  stages |-> <<>>], 0)
  /\ ops' = ops + 1
  /\ UNCHANGED << materials, node_groups, selected_objects, collection_objects, props,
                  connection_rules, processed_materials, refused, unavailable >>

\* the user deselects everything
Deselect ==
  /\ ops < MaxOps
  /\ selected_objects # <<>>
  /\ selected_objects' = <<>>
  /\ ops' = ops + 1
  /\ UNCHANGED << materials, node_groups, collection_objects, props, connection_rules,
                  connection_snapshot, processed_materials, refused, unavailable, last >>

Next == BatchReplace \/ Disconnect \/ Reconnect \/ ClearSnapshot \/ Deselect

Spec == Init /\ [][Next]_vars

\* ------------------------------------------------- the matcher on its own
\* the characters labels, names and rule values are made of: a letter in both
\* cases, another letter, white space
Alphabet == { "a", "A", "b", " " }

\* the character sequences of at most n characters
Words(n) == UNION { [1..k -> Alphabet] : k \in 0..n }

\* the settings as the add-on registers them
DefaultProps ==
  Destination("NONE", "") @@ Mode("ALL", "OBJECTS", "", "NONE", "")
    @@ [auto_connect |-> TRUE]

\* a scene whose materials use no nodes; a node's label and name (a node has a name) and the value
\* of a rule in label/name match mode, before the rule is matched against the node
InitMatch ==
  /\ materials = [m \in {"M1", "M2", "M3"} |-> NoGraph]
  /\ node_groups = <<>>
  /\ selected_objects = <<>>
  /\ collection_objects = <<>>
  /\ props = DefaultProps
  /\ connection_rules = <<>>
  /\ connection_snapshot = <<>>
  /\ processed_materials = {}
  /\ refused = Permissive
  /\ unavailable = {}
  /\ ops = 0
  /\ \E label \in Words(MaxLen), name \in Words(MaxLen) \ { <<>> },
        target_name \in Words(MaxLen) :
       last = [op |-> "inputs", label |-> label, name |-> name,
               target_name |-> target_name, matched |-> FALSE]

\* the test `match_node_by_label_or_name(n, rule.source_node_label)` of the rule loop
MatchNode ==
  /\ last.op = "inputs"
  /\ last' = [last EXCEPT !.op = "match_node",
                          !.matched = match_node_by_label_or_name(
                                        last.label, last.name, last.target_name)]
  /\ ops' = ops + 1
  /\ UNCHANGED << materials, node_groups, selected_objects, collection_objects, props,
                  connection_rules, connection_snapshot, processed_materials, refused,
                  unavailable >>

NextMatch == MatchNode

SpecMatch == InitMatch /\ [][NextMatch]_vars

\* ------------------------------------------------- a snapshot and a graph edited since
\* a node whose sockets beyond the first k_in inputs and k_out outputs are gone:
\* a group node after its group's interface was cut
Narrowed(g, name, k_in, k_out) ==
  [g EXCEPT !.nodes = [i \in 1..Len(g.nodes) |->
     IF g.nodes[i].name = name
       THEN [g.nodes[i] EXCEPT !.inputs = SubSeq(@, 1, k_in), !.outputs = SubSeq(@, 1, k_out)]
       ELSE g.nodes[i]]]

\* what the user can have made of a graph since its links were recorded:
\* nothing, one node deleted, the interface of a group node cut
Edits(g) ==
  { [kind |-> "none", name |-> "", k_in |-> 0, k_out |-> 0] }
    \cup { [kind |-> "deleted", name |-> g.nodes[i].name, k_in |-> 0, k_out |-> 0] :
             i \in 1..Len(g.nodes) }
    \cup UNION { { [kind |-> "narrowed", name |-> g.nodes[i].name,
                    k_in |-> k_in, k_out |-> k_out] :
                     k_in \in 0..Len(g.nodes[i].inputs),
                     k_out \in 0..Len(g.nodes[i].outputs) } :
                 i \in { j \in 1..Len(g.nodes) : g.nodes[j].type = "GROUP" } }

\* the graph after an edit
Edited(g, e) ==
  CASE e.kind = "none" -> g
    [] e.kind = "deleted" -> nodes_remove(g, e.name)
    [] e.kind = "narrowed" -> Narrowed(g, e.name, e.k_in, e.k_out)

\* the scene after a disconnect of everything, with the graph of M1 edited since
\* two rules into the same input: the texture's alpha, then its colour
OverwritingRules ==
  << Rule("LABEL", "Tex1", 1, "TYPE", "BSDF_PRINCIPLED", 0),
     Rule("LABEL", "Tex1", 0, "TYPE", "BSDF_PRINCIPLED", 0) >>

InitRestore ==
  \E g \in Graphs, a \in BOOLEAN, su \in Setups \cup { << OverwritingRules, Permissive >> } :
    \E e \in Edits(g) :
      \E r \in { disconnect_execute([m \in {"M1", "M2", "M3"} |->
                                       IF m = "M1" THEN g
                                       ELSE IF m = "M2" THEN GraphDiffuse ELSE NoGraph],
                                    Selection, <<>>,
                                    [DefaultProps EXCEPT !.auto_connect = a]) } :
        /\ materials = [r.materials EXCEPT !["M1"] = Edited(@, e)]
        /\ node_groups = NodeGroups
        /\ selected_objects = Selection
        /\ collection_objects = Collection
        /\ props = [DefaultProps EXCEPT !.auto_connect = a]
        /\ connection_rules = su[1]
        /\ connection_snapshot = r.snapshot
        /\ processed_materials = {}
        /\ refused = su[2]
        /\ unavailable = {}
        /\ ops = 0
        /\ last = NoOperator

NextRestore == Reconnect

SpecRestore == InitRestore /\ [][NextRestore]_vars

\* ------------------------------------------------- the engine's scenes
\* a group whose tree is a shader by its name only: its one output is a colour
RimGroup ==
  [name |-> "Rim Shader", type |-> "SHADER",
   inputs |-> << Sock("Color", "RGBA") >>, outputs |-> << Sock("Color", "RGBA") >>]

\* a shader group with a colour, an emission and a roughness input
GlowGroup ==
  [name |-> "Glow", type |-> "SHADER",
   inputs |-> << Sock("Color", "RGBA"), Sock("Emission", "RGBA"),
                 Sock("Roughness", "VALUE") >>,
   outputs |-> << Sock("Shader", "SHADER") >>]

EngineGroups == NodeGroups \o << RimGroup, GlowGroup >>

RimNode ==
  [name |-> "Group", label |-> "", type |-> "GROUP", node_tree |-> "Rim Shader",
   inputs |-> RimGroup.inputs, outputs |-> RimGroup.outputs]

Tex2Node == Node("Image Texture.001", "", "TEX_IMAGE")
RgbNode == Node("RGB", "", "RGB")

\* two image textures beside a principled shader, nothing linked
GraphTwoTex ==
  [use_nodes |-> TRUE,
   nodes |-> << TexNode, Tex2Node, PrincipledNode, OutNode >>,
   links |-> <<>>]

\* an image texture and a colour node beside a principled shader
GraphTexRgb ==
  [use_nodes |-> TRUE,
   nodes |-> << TexNode, RgbNode, PrincipledNode, OutNode >>,
   links |-> << Link("Principled BSDF", 0, "Material Output", 0) >>]

\* the colour-output group ahead of a diffuse shader, the output unlinked
GraphRim ==
  [use_nodes |-> TRUE,
   nodes |-> << RimNode, DiffuseNode, OutNode >>,
   links |-> <<>>]

GlowNode ==
  [name |-> "Group", label |-> "", type |-> "GROUP", node_tree |-> "Glow",
   inputs |-> GlowGroup.inputs, outputs |-> GlowGroup.outputs]

\* a noise texture and a value node labelled as ambient occlusion and a node
\* with three value outputs beside the shader group, nothing linked
GraphWeak ==
  [use_nodes |-> TRUE,
   nodes |-> << Node("Noise Texture", "AO", "TEX_NOISE"),
                Node("Separate Color", "", "SEPARATE_COLOR"),
                Node("Value", "AO", "VALUE"), GlowNode, OutNode >>,
   links |-> <<>>]

\* a shader that drives the surface and the volume input of the output node
GraphSurfaceVolume ==
  [use_nodes |-> TRUE,
   nodes |-> << DiffuseNode, OutNode >>,
   links |-> << Link("Diffuse BSDF", 0, "Material Output", 0),
                Link("Diffuse BSDF", 0, "Material Output", 1) >>]

\* a texture and a colour node feeding the colour and the emission input of
\* the shader group
GraphGlow ==
  [use_nodes |-> TRUE,
   nodes |-> << TexNode, RgbNode, GlowNode, OutNode >>,
   links |-> << Link("Image Texture", 0, "Group", 0), Link("RGB", 0, "Group", 1),
                Link("Group", 0, "Material Output", 0) >>]

EngineGraphs ==
  { GraphTwoTex, GraphTexRgb, GraphRim, GraphTexPrincipled, GraphMix, GraphToon,
    GraphWeak, GraphSurfaceVolume, GraphGlow }

\* all materials of the selection, or the one chosen material
EngineModes ==
  { Mode("ALL", "OBJECTS", "", "NONE", ""), Mode("MATERIAL", "OBJECTS", "M1", "NONE", "") }

EngineProps ==
  { d @@ m @@ [auto_connect |-> a] :
      d \in { Destination("BSDF_PRINCIPLED", ""), Destination("NONE", "Toon") },
      m \in EngineModes, a \in BOOLEAN }

\* the node classes the host does not register: none, or the principled shader
Registries == { {}, {"ShaderNodeBsdfPrincipled"} }

InitEngine ==
  \E g \in EngineGraphs, p \in EngineProps, rf \in { Permissive, Strict }, un \in Registries :
    /\ materials = [m \in {"M1", "M2", "M3"} |->
                      IF m = "M1" THEN g ELSE IF m = "M2" THEN GraphDiffuse ELSE NoGraph]
    /\ node_groups = EngineGroups
    /\ selected_objects = Selection
    /\ collection_objects = Collection
    /\ props = p
    /\ connection_rules = NoRules
    /\ connection_snapshot = <<>>
    /\ processed_materials = {}
    /\ refused = rf
    /\ unavailable = un
    /\ ops = 0
    /\ last = NoOperator

\* AutoConnectionRules.apply_auto_connections on the node tree of M1
ApplyAutoConnections ==
  /\ ops < MaxOps
  /\ materials["M1"].use_nodes
  /\ \E auto \in { apply_auto_connections(refused, materials["M1"].nodes,
                                          materials["M1"].links, props.auto_connect) } :
         /\ materials' = [materials EXCEPT !["M1"].links = auto.links]
         /\ last' = Ran("apply_auto_connections",
                        [status |-> "FINISHED", report |-> "", log |-> auto.log,
                         runs |-> <<>>, stages |-> <<>>],
                        auto.count)
  /\ ops' = ops + 1
  /\ UNCHANGED << node_groups, selected_objects, collection_objects, props,
                  connection_rules, connection_snapshot, processed_materials, refused,
                  unavailable >>

NextEngine == ApplyAutoConnections \/ BatchReplace \/ Reconnect

SpecEngine == InitEngine /\ [][NextEngine]_vars

\* ------------------------------------------------- socket semantics applied
\* the values of get_socket_semantic
Semantics ==
  { "COLOR", "NORMAL", "ROUGHNESS", "METALLIC", "ALPHA", "EMISSION", "SPECULAR",
    "SUBSURFACE", "AO", "DISPLACEMENT", "UNKNOWN" }

\* words of socket names: one or two per keyword group, in either case, a
\* word of COLOR_KEYWORDS that the classification does not test, and a word
\* of no group
NameWords ==
  { <<"B","a","s","e"," ","C","o","l","o","r">>,
    <<"B","a","s","e","C","o","l","o","r">>,
    <<"N","o","r","m","a","l">>,
    <<"R","O","U","G","H">>,
    <<"m","e","t","a","l">>,
    <<"F","a","c">>,
    <<"E","m","i","s","s","i","o","n">>,
    <<"s","p","e","c">>,
    <<"S","S","S">>,
    <<"a","o">>,
    <<"H","e","i","g","h","t">>,
    <<"C","o","l","o","r">>,
    <<"D","i","f","f","u","s","e">>,
    <<"x">> }

\* names of no word, one word and two words
SocketNames ==
  { <<>> } \cup NameWords \cup { a \o <<" ">> \o b : a \in NameWords, b \in NameWords }

InitSemantic ==
  /\ materials = [m \in {"M1", "M2", "M3"} |-> NoGraph]
  /\ node_groups = <<>>
  /\ selected_objects = <<>>
  /\ collection_objects = <<>>
  /\ props = DefaultProps
  /\ connection_rules = <<>>
  /\ connection_snapshot = <<>>
  /\ processed_materials = {}
  /\ refused = Permissive
  /\ unavailable = {}
  /\ ops = 0
  /\ \/ \E socket_name \in SocketNames :
          last = [op |-> "socket", socket_name |-> socket_name]
     \/ \E output_semantic \in Semantics, input_semantic \in Semantics :
          last = [op |-> "pair", output_semantic |-> output_semantic,
                  input_semantic |-> input_semantic]

\* SocketSemantics.get_socket_semantic(socket.name)
GetSocketSemantic ==
  /\ last.op = "socket"
  /\ last' = [op |-> "get_socket_semantic", socket_name |-> last.socket_name,
              semantic |-> get_socket_semantic(last.socket_name)]
  /\ ops' = ops + 1
  /\ UNCHANGED << materials, node_groups, selected_objects, collection_objects, props,
                  connection_rules, connection_snapshot, processed_materials, refused,
                  unavailable >>

\* SocketSemantics.are_semantically_compatible(output_semantic, input_semantic)
AreSemanticallyCompatible ==
  /\ last.op = "pair"
  /\ last' = [op |-> "are_semantically_compatible",
              output_semantic |-> last.output_semantic,
              input_semantic |-> last.input_semantic,
              score |-> are_semantically_compatible(last.output_semantic,
                                                    last.input_semantic)]
  /\ ops' = ops + 1
  /\ UNCHANGED << materials, node_groups, selected_objects, collection_objects, props,
                  connection_rules, connection_snapshot, processed_materials, refused,
                  unavailable >>

NextSemantic == GetSocketSemantic \/ AreSemanticallyCompatible

SpecSemantic == InitSemantic /\ [][NextSemantic]_vars

\* ------------------------------------------------- input matching applied
\* the inputs a new node may have: three names that differ by case or by a
\* word, each of a colour kind or of the shader kind
CandidateSockets ==
  { Sock(n, t) : n \in { "Color", "color", "Base Color" }, t \in { "RGBA", "SHADER" } }

\* the input lists of up to MaxInputs inputs
CandidateInputs == UNION { [1..n -> CandidateSockets] : n \in 0..MaxInputs }

InitInput ==
  /\ materials = [m \in {"M1", "M2", "M3"} |-> NoGraph]
  /\ node_groups = <<>>
  /\ selected_objects = <<>>
  /\ collection_objects = <<>>
  /\ props = DefaultProps
  /\ connection_rules = <<>>
  /\ connection_snapshot = <<>>
  /\ processed_materials = {}
  /\ refused = Permissive
  /\ unavailable = {}
  /\ ops = 0
  /\ \E inputs \in CandidateInputs, original_type \in { "RGBA", "SHADER" },
        connected_inputs \in { {}, {0} } :
       last = [op |-> "captured", inputs |-> inputs, original_name |-> "Color",
               original_type |-> original_type, connected_inputs |-> connected_inputs]

\* self._find_best_input_socket(new_shader, socket_name, conn['to_socket_type'], connected_inputs)
FindBestInputSocket ==
  /\ last.op = "captured"
  /\ last' = [op |-> "find_best_input_socket", inputs |-> last.inputs,
              original_name |-> last.original_name,
              original_type |-> last.original_type,
              connected_inputs |-> last.connected_inputs,
              target_socket |->
                find_best_input_socket([inputs |-> last.inputs], last.original_name,
                                       last.original_type, last.connected_inputs)]
  /\ ops' = ops + 1
  /\ UNCHANGED << materials, node_groups, selected_objects, collection_objects, props,
                  connection_rules, connection_snapshot, processed_materials, refused,
                  unavailable >>

NextInput == FindBestInputSocket

SpecInput == InitInput /\ [][NextInput]_vars

\* ------------------------------------------------- the sorted group cache
\* ord() of a character
Ord(c) ==
  IF \E i \in 1..Len(UPPER) : UPPER[i] = c
    THEN 64 + (CHOOSE i \in 1..Len(UPPER) : UPPER[i] = c)
    ELSE IF \E i \in 1..Len(LOWER) : LOWER[i] = c
      THEN 96 + (CHOOSE i \in 1..Len(LOWER) : LOWER[i] = c)
      ELSE 32

\* Python's a < b on sequences of characters: by code point, a proper prefix first
CharsLess(x, y) ==
  \E i \in 1..Len(y) :
    /\ \A j \in 1..(i - 1) : j <= Len(x) /\ x[j] = y[j]
    /\ i > Len(x) \/ Ord(x[i]) < Ord(y[i])

\* Python's a < b on str
StrLess(a, b) == CharsLess(Chars(a), Chars(b))

\* one step of sorted(..., key=lambda x: x.name): the sort is stable, so a
\* group goes after the groups whose name is not greater than its own
sorted_insert(acc, ng) ==
  SubSeq(acc, 1, Cardinality({ i \in 1..Len(acc) : ~StrLess(ng.name, acc[i].name) }))
    \o << ng >>
    \o SubSeq(acc, Cardinality({ i \in 1..Len(acc) : ~StrLess(ng.name, acc[i].name) }) + 1,
              Len(acc))

\* sorted([ng for ng in bpy.data.node_groups if ng.type == 'SHADER'], key=lambda x: x.name)
sorted_shader_groups(groups) ==
  FoldSeq(sorted_insert, <<>>, Filter(groups, LAMBDA ng : ng.type = "SHADER"))

\* the list holds references to the group definitions: their ids
References(groups) == [i \in 1..Len(groups) |-> groups[i].id]

\* NodeGroupCache after the class is defined
NodeGroupCache_initial == [sorted_groups_is_None |-> TRUE, sorted_groups |-> <<>>, last_count |-> 0]

\* NodeGroupCache.get_sorted_shader_node_groups: the cache after the call;
\* the call returns its sorted_groups
get_sorted_shader_node_groups(cache, groups) ==
  IF cache.sorted_groups_is_None \/ cache.last_count # Len(groups)
    THEN [sorted_groups_is_None |-> FALSE,
          sorted_groups |-> References(sorted_shader_groups(groups)),
          last_count |-> Len(groups)]
    ELSE cache

\* the most group definitions the registry holds
MaxGroups == 3

GroupNames == { "Toon", "Glow", "color", "Geo" }

GroupKinds == { "SHADER", "GEOMETRY" }

GroupDef(id, name, type) == [id |-> id, name |-> name, type |-> type]

GroupRegistries ==
  { <<>>,
    << GroupDef(1, "Toon", "SHADER"), GroupDef(2, "Geo", "GEOMETRY") >>,
    << GroupDef(1, "Toon", "SHADER"), GroupDef(2, "Glow", "SHADER") >> }

GroupIds(groups) == { groups[i].id : i \in 1..Len(groups) }

GroupNamesOf(groups) == { groups[i].name : i \in 1..Len(groups) }

InitGroupCache ==
  /\ materials = [m \in {"M1", "M2", "M3"} |-> NoGraph]
  /\ node_groups \in GroupRegistries
  /\ selected_objects = <<>>
  /\ collection_objects = <<>>
  /\ props = DefaultProps
  /\ connection_rules = <<>>
  /\ connection_snapshot = <<>>
  /\ processed_materials = {}
  /\ refused = Permissive
  /\ unavailable = {}
  /\ ops = 0
  /\ last = [op |-> "none", cache |-> NodeGroupCache_initial, returned |-> <<>>,
             recomputed |-> FALSE]

\* the host changed the registry: the cache is not told
HostChanged(op) == [last EXCEPT !.op = op, !.recomputed = FALSE]

\* bpy.data.node_groups.new(name, type)
AddGroup ==
  /\ ops < MaxOps
  /\ Len(node_groups) < MaxGroups
  /\ \E id \in (1..MaxGroups) \ GroupIds(node_groups),
        name \in GroupNames \ GroupNamesOf(node_groups), type \in GroupKinds :
       node_groups' = Append(node_groups, GroupDef(id, name, type))
  /\ last' = HostChanged("add")
  /\ ops' = ops + 1
  /\ UNCHANGED << materials, selected_objects, collection_objects, props, connection_rules,
                  connection_snapshot, processed_materials, refused, unavailable >>

\* bpy.data.node_groups.remove(group)
RemoveGroup ==
  /\ ops < MaxOps
  /\ \E i \in 1..Len(node_groups) :
       node_groups' = SubSeq(node_groups, 1, i - 1) \o SubSeq(node_groups, i + 1, Len(node_groups))
  /\ last' = HostChanged("remove")
  /\ ops' = ops + 1
  /\ UNCHANGED << materials, selected_objects, collection_objects, props, connection_rules,
                  connection_snapshot, processed_materials, refused, unavailable >>

\* group.name = name, to a name no other group has
RenameGroup ==
  /\ ops < MaxOps
  /\ \E i \in 1..Len(node_groups), name \in GroupNames \ GroupNamesOf(node_groups) :
       node_groups' = [node_groups EXCEPT ![i].name = name]
  /\ last' = HostChanged("rename")
  /\ ops' = ops + 1
  /\ UNCHANGED << materials, selected_objects, collection_objects, props, connection_rules,
                  connection_snapshot, processed_materials, refused, unavailable >>

\* a group definition becomes one of the other kind
ChangeKind ==
  /\ ops < MaxOps
  /\ \E i \in 1..Len(node_groups) :
       \E type \in GroupKinds \ { node_groups[i].type } :
         node_groups' = [node_groups EXCEPT ![i].type = type]
  /\ last' = HostChanged("kind")
  /\ ops' = ops + 1
  /\ UNCHANGED << materials, selected_objects, collection_objects, props, connection_rules,
                  connection_snapshot, processed_materials, refused, unavailable >>

\* a read of NodeGroupCache.get_sorted_shader_node_groups()
GetSortedShaderNodeGroups ==
  /\ ops < MaxOps
  /\ last' = [op |-> "get_sorted_shader_node_groups",
              cache |-> get_sorted_shader_node_groups(last.cache, node_groups),
              returned |-> get_sorted_shader_node_groups(last.cache, node_groups).sorted_groups,
              recomputed |-> last.cache.sorted_groups_is_None
                               \/ last.cache.last_count # Len(node_groups)]
  /\ ops' = ops + 1
  /\ UNCHANGED << materials, node_groups, selected_objects, collection_objects, props,
                  connection_rules, connection_snapshot, processed_materials, refused,
                  unavailable >>

NextGroupCache ==
  AddGroup \/ RemoveGroup \/ RenameGroup \/ ChangeKind \/ GetSortedShaderNodeGroups

SpecGroupCache == InitGroupCache /\ [][NextGroupCache]_vars

\* ------------------------------------------------- the rule list
\* the most operations on the rule list in one behaviour
MaxRuleOps == 8

\* props.connection_rules.add(): an item with the defaults of ConnectionRuleItem
DefaultRule == Rule("LABEL", "", 0, "LABEL", "", 0)

\* collection.remove(index), index counted from 0
collection_remove(items, index) ==
  SubSeq(items, 1, index) \o SubSeq(items, index + 2, Len(items))

\* MATERIAL_OT_add_connection_rule.execute
add_connection_rule(rules, active_rule_index) ==
  [connection_rules |-> Append(rules, DefaultRule),
   active_rule_index |-> Len(Append(rules, DefaultRule)) - 1]

\* a remove that leaves the active index where it was
remove_connection_rule_unclamped(rules, active_rule_index) ==
  IF 0 <= active_rule_index /\ active_rule_index < Len(rules)
    THEN [connection_rules |-> collection_remove(rules, active_rule_index),
          active_rule_index |-> active_rule_index]
    ELSE [connection_rules |-> rules, active_rule_index |-> active_rule_index]

\* MATERIAL_OT_remove_connection_rule.execute
remove_connection_rule(rules, active_rule_index) ==
  IF 0 <= active_rule_index /\ active_rule_index < Len(rules)
    THEN [connection_rules |-> collection_remove(rules, active_rule_index),
          active_rule_index |->
            IF active_rule_index >= Len(collection_remove(rules, active_rule_index))
              THEN Len(collection_remove(rules, active_rule_index)) - 1
              ELSE active_rule_index]
    ELSE [connection_rules |-> rules, active_rule_index |-> active_rule_index]

InitRules ==
  /\ materials = [m \in {"M1", "M2", "M3"} |-> NoGraph]
  /\ node_groups = <<>>
  /\ selected_objects = <<>>
  /\ collection_objects = <<>>
  /\ props = DefaultProps @@ [active_rule_index |-> 0]
  /\ connection_rules = <<>>
  /\ connection_snapshot = <<>>
  /\ processed_materials = {}
  /\ refused = Permissive
  /\ unavailable = {}
  /\ ops = 0
  /\ last = [op |-> "none", rules |-> <<>>, active_rule_index |-> 0]

AddConnectionRule ==
  /\ ops < MaxRuleOps
  /\ connection_rules' =
       add_connection_rule(connection_rules, props.active_rule_index).connection_rules
  /\ props' = [props EXCEPT !.active_rule_index =
                 add_connection_rule(connection_rules, @).active_rule_index]
  /\ last' = [op |-> "add_connection_rule", rules |-> connection_rules,
              active_rule_index |-> props.active_rule_index]
  /\ ops' = ops + 1
  /\ UNCHANGED << materials, node_groups, selected_objects, collection_objects,
                  connection_snapshot, processed_materials, refused, unavailable >>

RemoveConnectionRule ==
  /\ ops < MaxRuleOps
  /\ connection_rules' =
       remove_connection_rule(connection_rules, props.active_rule_index).connection_rules
  /\ props' = [props EXCEPT !.active_rule_index =
                 remove_connection_rule(connection_rules, @).active_rule_index]
  /\ last' = [op |-> "remove_connection_rule", rules |-> connection_rules,
              active_rule_index |-> props.active_rule_index]
  /\ ops' = ops + 1
  /\ UNCHANGED << materials, node_groups, selected_objects, collection_objects,
                  connection_snapshot, processed_materials, refused, unavailable >>

\* the rule list of the panel: a click on a row makes it the active rule
SelectRule ==
  /\ ops < MaxRuleOps
  /\ \E row \in 0..(Len(connection_rules) - 1) :
       /\ row # props.active_rule_index
       /\ props' = [props EXCEPT !.active_rule_index = row]
  /\ last' = [op |-> "select", rules |-> connection_rules,
              active_rule_index |-> props.active_rule_index]
  /\ ops' = ops + 1
  /\ UNCHANGED << materials, node_groups, selected_objects, collection_objects,
                  connection_rules, connection_snapshot, processed_materials, refused,
                  unavailable >>

NextRules == AddConnectionRule \/ RemoveConnectionRule \/ SelectRule

SpecRules == InitRules /\ [][NextRules]_vars

\* ------------------------------------------------- properties
LinkSet(links) == { links[i] : i \in 1..Len(links) }

\* the materials the selection loop of the last invocation visited, in order
Visited == Dedup(visited_materials(materials, last.objects))

\* the last two invocations were a disconnect of everything and then a
\* reconnect that neither auto-connects nor applies a rule
RoundTrip ==
  /\ last.op = "reconnect" /\ last.status = "FINISHED"
  /\ last.previous.op = "disconnect" /\ last.previous.status = "FINISHED"
  /\ props.replace_mode = "ALL"
  /\ ~props.auto_connect
  /\ connection_rules = <<>>

\* C1: snapshot round trip.  After a disconnect in ALL mode and an immediately
\* following reconnect with auto-connect disabled and no rules, every visited
\* material with N links had N links removed, has N snapshot records, and has
\* N links again, each with the (source node, source output index, target
\* node, target input index) of one of the original links.
C1_SnapshotRoundTrip ==
  RoundTrip =>
    \A m \in LinkSet(Visited) :
      LET original == last.previous.before[m].links
          records == SelectSeq(connection_snapshot, LAMBDA it : it.material_name = m)
      IN  /\ last.before[m].links = <<>>
          /\ Len(records) = Len(original)
          /\ Len(materials[m].links) = Len(original)
          /\ LinkSet(materials[m].links) \subseteq LinkSet(original)

\* the round trip over the mix graph: three links were removed and recorded,
\* two links are back, and one of them enters an input it never entered
C1_DuplicateNamesLost ==
  /\ RoundTrip
  /\ last.previous.before["M1"] = GraphMix
  /\ Len(SelectSeq(connection_snapshot, LAMBDA it : it.material_name = "M1")) = 3
  /\ materials["M1"].links =
       << Link("Principled BSDF", 0, "Mix Shader", 1),
          Link("Mix Shader", 0, "Material Output", 0) >>

\* what identifies a snapshot record's link without its socket indices
RecordKey(it) ==
  << it.material_name, it.from_node_name, it.from_socket_name,
     it.to_node_name, it.to_socket_name >>

\* the keys of the links a pass removed from material m, in graph order
RemovedKeys(m, before, after) ==
  LET gone == SelectSeq(before.links, LAMBDA l : l \notin LinkSet(after.links))
  IN  [i \in 1..Len(gone) |->
         << m, gone[i].from_node,
            At(GetNode(before.nodes, gone[i].from_node).outputs, gone[i].from_socket).name,
            gone[i].to_node,
            At(GetNode(before.nodes, gone[i].to_node).inputs, gone[i].to_socket).name >>]

\* C10: the snapshot store is emptied at the start of every disconnect pass.
\* After a disconnect that completes, whatever the store held before, the
\* store holds exactly one record per link this pass removed, material by
\* material in the order visited, and no record of an earlier disconnect.
C10_StoreHoldsThisPassOnly ==
  (last.op = "disconnect" /\ last.status = "FINISHED") =>
    [i \in 1..Len(connection_snapshot) |-> RecordKey(connection_snapshot[i])]
      = FoldSeq(LAMBDA acc, m : acc \o RemovedKeys(m, last.before[m], materials[m]),
                <<>>, Visited)

\* a disconnect that removed links completed on a store that held the records
\* of an earlier pass
C10_SecondPass ==
  /\ last.op = "disconnect" /\ last.status = "FINISHED"
  /\ last.before_snapshot # <<>>
  /\ last.count > 0
  /\ Len(connection_snapshot) = last.count

\* the last invocation was a batch replace that completed
Replaced == last.op = "batch_replace" /\ last.status = "FINISHED"

Destination_name == chosen_shader_name(props.builtin_shader, props.shader_nodegroup)

OutputNodes(g) == SelectSeq(g.nodes, LAMBDA n : n.type = "OUTPUT_MATERIAL")

\* node `name` of graph g is linked to the surface input of g's output node
OnSurface(g, name) ==
  LET output_node == Head(OutputNodes(g))
  IN  Link(name, find_shader_output(GetNode(g.nodes, name)),
           output_node.name, surface_input(output_node)) \in LinkSet(g.links)

\* the replacements of the last batch replace, each with the material it was in
Cycles ==
  UNION { { [material |-> last.runs[i].material, cycle |-> last.runs[i].cycles[j],
             final |-> j = Len(last.runs[i].cycles)] :
            j \in 1..Len(last.runs[i].cycles) } : i \in 1..Len(last.runs) }

Identity(node) ==
  IF node.type = "GROUP" /\ node.node_tree # "" THEN node.node_tree ELSE node.type

\* C3 as stated: no-op exclusion.  In ALL and MATERIAL mode no node whose
\* built-in type or group name equals the destination shader is replaced, and
\* a graph whose shader nodes are all the destination shader already comes
\* out with replacedCount = 0 and unchanged.
C3_NoOpExclusion ==
  (Replaced /\ props.replace_mode \in {"ALL", "MATERIAL"}) =>
    /\ \A c \in Cycles : Identity(c.cycle.old_shader) # Destination_name
    /\ \A i \in 1..Len(last.runs) :
         LET run == last.runs[i]
             shaders == SelectSeq(run.before.nodes, is_shader_node)
         IN  (\A k \in 1..Len(shaders) : Identity(shaders[k]) = Destination_name)
               => run.result = 0 /\ materials[run.material] = run.before

\* the only shader node of the graph was a Principled BSDF, the destination
\* was BSDF_PRINCIPLED, and the node was replaced
C3_PrincipledReplacedByPrincipled ==
  /\ Replaced
  /\ props.replace_mode = "MATERIAL"
  /\ props.builtin_shader = "BSDF_PRINCIPLED"
  /\ last.before["M1"] = GraphTexPrincipled
  /\ last.count = 1
  /\ materials["M1"] # GraphTexPrincipled

\* the destination resolves to a shader group or to a built-in shader
DestinationResolved ==
  /\ Destination_name # ""
  /\ \/ shader_node_group(node_groups, Destination_name) # <<>>
     \/ is_valid_builtin_shader(Destination_name)

\* C4 as stated: batch replace is cancelled, with no target located, whenever
\* the destination shader is unresolved and, in SPECIFIC and MATERIAL_SPECIFIC
\* mode alike, whenever the identity of the node to replace is unresolved.
C4_UnresolvedCancels ==
  (last.op = "batch_replace"
    /\ \/ ~DestinationResolved
       \/ /\ props.replace_mode = "SPECIFIC"
          /\ chosen_shader_name(props.specific_builtin_shader,
                                props.specific_nodegroup) = ""
       \/ /\ props.replace_mode = "MATERIAL_SPECIFIC"
          /\ chosen_shader_name(props.material_specific_builtin_shader,
                                props.material_specific_nodegroup) = "")
    => last.status = "CANCELLED" /\ last.runs = <<>>

\* MATERIAL_SPECIFIC mode with a destination, a target material with nodes
\* and no identity of the node to replace
UnresolvedMaterialSpecific ==
  /\ last.op = "batch_replace"
  /\ DestinationResolved
  /\ props.replace_mode = "MATERIAL_SPECIFIC"
  /\ props.target_material # ""
  /\ last.before[props.target_material].use_nodes
  /\ chosen_shader_name(props.material_specific_builtin_shader,
                        props.material_specific_nodegroup) = ""

\* C4 amended: batch replace is cancelled, with no target located, whenever
\* the destination shader is unresolved and, in SPECIFIC mode, whenever the
\* identity of the node to replace is unresolved.  In MATERIAL_SPECIFIC mode
\* an unresolved identity is no validation failure: with a destination and a
\* target material that has nodes the operation completes, replaces nothing
\* and leaves the graphs as they were.
C4_UnresolvedCancelsButMaterialSpecific ==
  /\ (last.op = "batch_replace"
       /\ \/ ~DestinationResolved
          \/ /\ props.replace_mode = "SPECIFIC"
             /\ chosen_shader_name(props.specific_builtin_shader,
                                   props.specific_nodegroup) = "")
       => last.status = "CANCELLED" /\ last.runs = <<>>
  /\ UnresolvedMaterialSpecific
       => /\ last.status = "FINISHED"
          /\ last.count = 0
          /\ \A i \in 1..Len(last.runs) : last.runs[i].cycles = <<>>
          /\ materials = last.before

\* a batch replace in MATERIAL_SPECIFIC mode without an identity of the node
\* to replace has completed
C4_MaterialSpecificCompletes ==
  UnresolvedMaterialSpecific /\ last.status = "FINISHED" /\ last.report = "nothing_to_replace"

\* C5: an invocation of batch replace, disconnect or reconnect that ends
\* cancelled has added and removed no node and no link of any graph, and has
\* left the snapshot store as it was.
C5_CancelledChangesNothing ==
  (last.op \in {"batch_replace", "disconnect", "reconnect"} /\ last.status = "CANCELLED")
    => /\ materials = last.before
       /\ connection_snapshot = last.before_snapshot

\* a disconnect was cancelled while the store held the records of an earlier pass
C5_CancelledOnFilledStore ==
  /\ last.op = "disconnect"
  /\ last.status = "CANCELLED"
  /\ last.before_snapshot # <<>>
  /\ connection_snapshot = last.before_snapshot

\* scenario M1: a diffuse shader fed by an image texture and feeding the
\* output node; batch replace restricted to M1, every shader, to
\* BSDF_PRINCIPLED, with auto-connect
ScenarioM1 ==
  /\ last.op = "batch_replace"
  /\ last.before["M1"] = GraphTexDiffuse
  /\ props.replace_mode = "MATERIAL"
  /\ props.target_material = "M1"
  /\ props.builtin_shader = "BSDF_PRINCIPLED"
  /\ props.auto_connect

SocketNamed(sockets, name) == FirstIndex(sockets, LAMBDA sk : sk.name = name)

\* C6: in scenario M1 batch replace returns replacedCount = 1, and afterwards
\* the new node's "Base Color" input is linked from the texture's "Color"
\* output and the new node's shader output is linked to the output node's
\* "Surface" input.
C6_ScenarioM1 ==
  ScenarioM1 =>
    /\ last.status = "FINISHED"
    /\ last.count = 1
    /\ Len(last.runs) = 1 /\ Len(last.runs[1].cycles) = 1
    /\ LET new == last.runs[1].cycles[1].new_shader
           g == materials["M1"]
       IN  /\ new.type = "BSDF_PRINCIPLED"
           /\ HasNode(g.nodes, new.name)
           /\ ~HasNode(g.nodes, "Diffuse BSDF")
           /\ Link("Image Texture", SocketNamed(TexNode.outputs, "Color"),
                   new.name, SocketNamed(new.inputs, "Base Color")) \in LinkSet(g.links)
           /\ Link(new.name, find_shader_output(new),
                   "Material Output", SocketNamed(OutNode.inputs, "Surface"))
                \in LinkSet(g.links)

\* scenario M1 has run: one node replaced, two links in the graph
C6_ScenarioM1Ran ==
  /\ ScenarioM1
  /\ last.count = 1
  /\ Len(materials["M1"].links) = 2
  /\ HasNode(materials["M1"].nodes, "BSDF_PRINCIPLED")

\* the attempts of the texture pass from one texture node to one shader node
TextureAttempts(st, tex_node, shader_node) ==
  SelectSeq(st.auto_log, LAMBDA e :
    /\ e.stage \in {"texture", "alpha"}
    /\ e.from_node = tex_node.name
    /\ e.to_node = shader_node.name)

NoAlphaInput(shader_node) ==
  \A i \in 1..Len(shader_node.inputs) : Semantic[shader_node.inputs[i].name] # "ALPHA"

\* C7: alpha gating.  In the texture pass, for an image texture node with two
\* outputs and a shader node none of whose inputs is classified ALPHA, at
\* most one link is made, from the texture's first output, and no link is
\* attempted from its second output.
C7_AlphaGating ==
  last.op = "reconnect" =>
    \A i \in 1..Len(last.stages) :
      LET st == last.stages[i]
          nodes == materials[st.material].nodes
      IN  \A t, sh \in 1..Len(nodes) :
            (/\ nodes[t].type = "TEX_IMAGE"
             /\ Len(nodes[t].outputs) = 2
             /\ NoAlphaInput(nodes[sh]))
            => LET tried == TextureAttempts(st, nodes[t], nodes[sh])
               IN  /\ \A k \in 1..Len(tried) : tried[k].from_socket = 0
                   /\ Len(SelectSeq(tried, LAMBDA e : e.ok)) <= 1

\* the texture pass linked the image texture's color output to the shader
\* group, whose second input has "alpha" in its name and is not classified
\* ALPHA, and tried nothing else between the two
C7_ColorLinkOnly ==
  /\ last.op = "reconnect"
  /\ \E i \in 1..Len(last.stages) :
       LET st == last.stages[i]
           nodes == materials[st.material].nodes
       IN  /\ HasNode(nodes, "Image Texture") /\ HasNode(nodes, "Group")
           /\ NoAlphaInput(GetNode(nodes, "Group"))
           /\ alpha_input(GetNode(nodes, "Group"), {0}) = 1
           /\ TextureAttempts(st, GetNode(nodes, "Image Texture"), GetNode(nodes, "Group"))
                = << [stage |-> "texture", from_node |-> "Image Texture", from_socket |-> 0,
                      to_node |-> "Group", to_socket |-> 0, ok |-> TRUE] >>

\* the links one rule has to attempt in a graph: every pair of a matched
\* source and a matched target that are two nodes, when the rule's indices are
\* within the two nodes' socket counts
RuleAttempts(nodes, rule) ==
  LET sources == LinkSet(rule_nodes(nodes, rule.source_match_mode,
                                    rule.source_node_label, rule.source_node_type))
      targets == LinkSet(rule_nodes(nodes, rule.target_match_mode,
                                    rule.target_node_label, rule.target_node_type))
  IN  { << q[1].name, rule.source_socket_index, q[2].name, rule.target_socket_index >> :
          q \in { pr \in sources \X targets :
                    /\ pr[1] # pr[2]
                    /\ rule.source_socket_index < Len(pr[1].outputs)
                    /\ rule.target_socket_index < Len(pr[2].inputs) } }

\* C8: rule application.  For each rule and each pair of matched nodes that
\* are two nodes, the link is attempted exactly when both indices are within
\* the socket counts; nothing is attempted for a node paired with itself or
\* for an index out of range, and a refused link stops neither the remaining
\* pairs nor the remaining rules.  The rule {label "Tex1", output 0 -> type
\* BSDF_PRINCIPLED, input 0}, alone and without auto-connect, on a graph with
\* one node matched on each side makes exactly one link, which replaces the
\* link that input had.
C8_RuleApplication ==
  (last.op = "reconnect" /\ last.status = "FINISHED") =>
    \A i \in 1..Len(last.stages) :
      LET st == last.stages[i]
          nodes == materials[st.material].nodes
          attempted == { << st.rule_log[k].from_node, st.rule_log[k].from_socket,
                            st.rule_log[k].to_node, st.rule_log[k].to_socket >> :
                         k \in 1..Len(st.rule_log) }
          tex == rule_nodes(nodes, "LABEL", "Tex1", "")
          principled == rule_nodes(nodes, "TYPE", "", "BSDF_PRINCIPLED")
          made == Link(tex[1].name, 0, principled[1].name, 0)
      IN  /\ attempted = UNION { RuleAttempts(nodes, connection_rules[r]) :
                                 r \in 1..Len(connection_rules) }
          /\ Len(st.rule_log) =
               FoldSeq(LAMBDA n, rule : n + Cardinality(RuleAttempts(nodes, rule)),
                       0, connection_rules)
          /\ (/\ connection_rules = TexToPrincipled
              /\ ~props.auto_connect
              /\ Len(tex) = 1 /\ Len(principled) = 1)
             => /\ Len(st.rule_log) = 1
                /\ st.rule_log[1].ok
                /\ LinkSet(st.after_rules) =
                     { l \in LinkSet(st.before) :
                         ~(l.to_node = made.to_node /\ l.to_socket = 0) } \cup { made }
                /\ Len(st.after_rules) = Cardinality(LinkSet(st.after_rules))

\* in one graph the host refused the link of the first rule, and a later rule
\* made its link
C8_RefusedThenMade ==
  /\ last.op = "reconnect" /\ last.status = "FINISHED"
  /\ \E i \in 1..Len(last.stages) :
       LET log == last.stages[i].rule_log
       IN  \E a, b \in 1..Len(log) : a < b /\ ~log[a].ok /\ log[b].ok

\* the rule from "Tex1" to the Principled node replaced the link the
\* Principled node's first input had
C8_PriorLinkReplaced ==
  /\ last.op = "reconnect" /\ last.status = "FINISHED"
  /\ connection_rules = TexToPrincipled
  /\ ~props.auto_connect
  /\ \E i \in 1..Len(last.stages) :
       LET st == last.stages[i]
       IN  /\ Link("Image Texture", 1, "Principled BSDF", 0) \in LinkSet(st.before)
           /\ Link("Image Texture", 1, "Principled BSDF", 0) \notin LinkSet(st.after_rules)
           /\ Link("Image Texture", 0, "Principled BSDF", 0) \in LinkSet(st.after_rules)

\* C9 as stated: a rule in label/name match mode matches a node,
\* case-insensitively, exactly when the rule value equals the node's label, or
\* equals the node's name, or one of the two strings contains the other, in
\* either direction.  The value is taken without its surrounding white space,
\* and a node without a label is matched on its name.
C9_EitherDirection ==
  last.op = "match_node" =>
    LET v == Strip(ToLower(last.target_name))
        l == ToLower(last.label)
        n == ToLower(last.name)
    IN  last.matched <=>
          /\ last.target_name # <<>>
          /\ \/ last.label # <<>> /\ (l = v \/ Contains(v, l) \/ Contains(l, v))
             \/ n = v \/ Contains(v, n) \/ Contains(n, v)

\* C9 amended: a rule in label/name match mode matches a node exactly when the
\* rule value is not empty and, lower-cased and without its surrounding white
\* space, lies inside the lower-cased label (of a node that has a label) or
\* inside the lower-cased name.  A label or a name that lies inside a longer
\* rule value is no match, and a value of white space alone matches every node.
C9_ValueInsideLabelOrName ==
  last.op = "match_node" =>
    LET v == Strip(ToLower(last.target_name))
    IN  last.matched <=>
          /\ last.target_name # <<>>
          /\ \/ last.label # <<>> /\ Contains(v, ToLower(last.label))
             \/ Contains(v, ToLower(last.name))

\* the node's name lies inside a longer rule value, and the rule did not match
C9_NameInsideLongerValue ==
  /\ last.op = "match_node"
  /\ ~last.matched
  /\ Len(last.name) < Len(Strip(ToLower(last.target_name)))
  /\ Contains(ToLower(last.name), Strip(ToLower(last.target_name)))

\* whether a record's two node names and two socket indices resolve in a graph
Resolves(nodes, it) ==
  /\ HasNode(nodes, it.from_node_name) /\ HasNode(nodes, it.to_node_name)
  /\ it.from_socket_index < Len(GetNode(nodes, it.from_node_name).outputs)
  /\ it.to_socket_index < Len(GetNode(nodes, it.to_node_name).inputs)

\* the records of the store a reconnect started from that belong to material m
RecordsOf(m) == SelectSeq(last.before_snapshot, LAMBDA it : it.material_name = m)

\* C11: restore of a material's snapshot records skips, without aborting,
\* every record whose source or target node name no longer resolves in the
\* graph or whose socket index is out of range, still processes all later
\* records, and returns the count of links actually created: the link attempts
\* of the restore are the records that resolve, one attempt each and in the
\* order of the store, and the count returned is the number of attempts in
\* which the host made the link.
C11_RestoreSkipsUnresolved ==
  (last.op = "reconnect" /\ last.status = "FINISHED" /\ last.before_snapshot # <<>>) =>
    \A i \in 1..Len(last.stages) :
      LET st == last.stages[i]
          due == SelectSeq(RecordsOf(st.material),
                           LAMBDA it : Resolves(materials[st.material].nodes, it))
      IN  /\ [k \in 1..Len(st.restore_log) |->
                << st.restore_log[k].from_node, st.restore_log[k].from_socket,
                   st.restore_log[k].to_node, st.restore_log[k].to_socket >>]
               = [k \in 1..Len(due) |->
                    << due[k].from_node_name, due[k].from_socket_index,
                       due[k].to_node_name, due[k].to_socket_index >>]
          /\ st.restored_count
               = Cardinality({ k \in 1..Len(st.restore_log) : st.restore_log[k].ok })
          /\ \A k \in 1..Len(st.restore_log) :
               LET e == st.restore_log[k]
                   later == \E j \in (k + 1)..Len(st.restore_log) :
                              /\ st.restore_log[j].ok
                              /\ st.restore_log[j].to_node = e.to_node
                              /\ st.restore_log[j].to_socket = e.to_socket
               IN  (e.ok /\ ~later)
                     => Link(e.from_node, e.from_socket, e.to_node, e.to_socket)
                          \in LinkSet(st.after_restore)

\* a record whose socket index is out of range in the edited graph was
\* skipped, and a later record of the same material was restored
C11_SkippedThenRestored ==
  /\ last.op = "reconnect" /\ last.status = "FINISHED"
  /\ \E i \in 1..Len(last.stages) :
       LET st == last.stages[i]
           mine == RecordsOf(st.material)
           nodes == materials[st.material].nodes
       IN  /\ st.restored_count >= 1
           /\ \E j, k \in 1..Len(mine) :
                /\ j < k
                /\ HasNode(nodes, mine[j].from_node_name)
                /\ HasNode(nodes, mine[j].to_node_name)
                /\ ~Resolves(nodes, mine[j])
                /\ Resolves(nodes, mine[k])
                /\ Link(mine[k].from_node_name, mine[k].from_socket_index,
                        mine[k].to_node_name, mine[k].to_socket_index)
                     \in LinkSet(st.after_restore)

\* a record whose source node was deleted was skipped, and a later record of
\* the same material was restored
C11_DeletedNodeSkipped ==
  /\ last.op = "reconnect" /\ last.status = "FINISHED"
  /\ \E i \in 1..Len(last.stages) :
       LET st == last.stages[i]
           mine == RecordsOf(st.material)
           nodes == materials[st.material].nodes
       IN  \E j, k \in 1..Len(mine) :
             /\ j < k
             /\ ~HasNode(nodes, mine[j].from_node_name)
             /\ Resolves(nodes, mine[k])
             /\ st.restored_count >= 1

\* ------------------------------------------------- auto-connect disabled
\* the nodes a batch run created, per material
CreatedNodes(run) == { run.cycles[i].new_shader.name : i \in 1..Len(run.cycles) }

\* C12: with auto-connect disabled the auto-connection engine returns 0, tries
\* no link and leaves the links as they were, and a batch replacement tries no
\* link, so that no link of a rewritten graph touches a node the run created
C12_AutoConnectDisabled ==
  ~props.auto_connect =>
    /\ last.op = "apply_auto_connections" =>
         /\ last.count = 0
         /\ last.log = <<>>
         /\ materials = last.before
    /\ (last.op = "batch_replace" /\ last.status = "FINISHED") =>
         /\ last.log = <<>>
         /\ \A i \in 1..Len(last.runs) :
              \A l \in LinkSet(materials[last.runs[i].material].links) :
                /\ l.from_node \notin CreatedNodes(last.runs[i])
                /\ l.to_node \notin CreatedNodes(last.runs[i])

\* the engine left two unlinked textures alone, and the batch run after it
\* replaced a linked shader by an unlinked one
C12_DisabledEngineThenBatch ==
  /\ ~props.auto_connect
  /\ last.op = "batch_replace"
  /\ last.status = "FINISHED"
  /\ last.count >= 1
  /\ last.previous.op = "apply_auto_connections"
  /\ last.previous.before = last.before
  /\ last.before["M1"] \in { GraphTwoTex, GraphTexPrincipled }
  /\ last.before["M2"].links # <<>>
  /\ materials["M2"].links = <<>>

\* ------------------------------------------------- a target whose node cannot be made
\* the targets one material's run located, in graph order
LocatedTargets(run) ==
  shaders_to_replace(run.before, props,
                     chosen_shader_name(props.builtin_shader, props.shader_nodegroup),
                     IF props.replace_mode = "SPECIFIC"
                       THEN chosen_shader_name(props.specific_builtin_shader,
                                               props.specific_nodegroup)
                     ELSE IF props.replace_mode = "MATERIAL_SPECIFIC"
                       THEN chosen_shader_name(props.material_specific_builtin_shader,
                                               props.material_specific_nodegroup)
                     ELSE "")

\* the targets of a run that were deleted and replaced, and those that were
\* deleted and whose replacement could not be made
ReplacedTargets(run) == [i \in 1..Len(run.cycles) |-> run.cycles[i].old_shader.name]
FailedTargets(run) == [i \in 1..Len(run.failed) |-> run.failed[i].old_shader.name]

\* C13: in a finished batch replacement every located target is deleted and
\* then either replaced or, when its node cannot be made, left out of the
\* count with the deletion standing; the targets after a failed one are
\* still processed, and the material's count is the number of targets replaced
C13_FailureIsolated ==
  (last.op = "batch_replace" /\ last.status = "FINISHED") =>
    \A i \in 1..Len(last.runs) :
         /\ last.runs[i].result = Len(last.runs[i].cycles)
         /\ Len(last.runs[i].cycles) + Len(last.runs[i].failed)
              = Len(LocatedTargets(last.runs[i]))
         /\ \A t \in 1..Len(LocatedTargets(last.runs[i])) :
              /\ \/ \E k \in 1..Len(last.runs[i].cycles) :
                      ReplacedTargets(last.runs[i])[k] = LocatedTargets(last.runs[i])[t]
                 \/ \E k \in 1..Len(last.runs[i].failed) :
                      FailedTargets(last.runs[i])[k] = LocatedTargets(last.runs[i])[t]
              /\ HasNode(materials[last.runs[i].material].nodes,
                         LocatedTargets(last.runs[i])[t])
                   => LocatedTargets(last.runs[i])[t] \in CreatedNodes(last.runs[i])
         /\ \A k \in 1..Len(last.runs[i].failed) :
              /\ ~HasNode(last.runs[i].failed[k].graph.nodes,
                          FailedTargets(last.runs[i])[k])
              /\ \A l \in LinkSet(last.runs[i].failed[k].graph.links) :
                   /\ l.from_node # FailedTargets(last.runs[i])[k]
                   /\ l.to_node # FailedTargets(last.runs[i])[k]
              /\ FailedTargets(last.runs[i])[k] \notin CreatedNodes(last.runs[i])
                   => ~HasNode(materials[last.runs[i].material].nodes,
                               FailedTargets(last.runs[i])[k])

\* three linked shaders deleted in one run, none replaced, nothing counted
C13_AllTargetsFailed ==
  /\ last.op = "batch_replace"
  /\ last.status = "FINISHED"
  /\ last.count = 0
  /\ Len(last.runs) >= 1
  /\ last.runs[1].before = GraphMix
  /\ Len(last.runs[1].failed) = 3
  /\ Len(materials["M1"].nodes) = 1
  /\ materials["M1"].links = <<>>

\* ------------------------------------------------- the chosen material
\* the materials in the slots of the selected objects
UsedBySelection ==
  UNION { { selected_objects[i].material_slots[j] :
              j \in 1..Len(selected_objects[i].material_slots) } :
          i \in 1..Len(selected_objects) } \ {""}

\* C14: in MATERIAL and MATERIAL_SPECIFIC mode with a material chosen, a batch
\* replacement, a disconnect and a reconnect leave the graph of every other
\* material as it was
C14_MaterialScoped ==
  ( /\ props.replace_mode \in {"MATERIAL", "MATERIAL_SPECIFIC"}
    /\ props.target_material # ""
    /\ last.op \in {"batch_replace", "disconnect", "reconnect"} ) =>
    \A m \in DOMAIN materials :
      m # props.target_material => materials[m] = last.before[m]

\* a disconnect and then a reconnect, each changing the chosen material M1,
\* while the selection also uses M2, whose links stay
C14_ChosenOnlyChanged ==
  /\ props.replace_mode \in {"MATERIAL", "MATERIAL_SPECIFIC"}
  /\ props.target_material = "M1"
  /\ last.op = "reconnect"
  /\ last.previous.op = "disconnect"
  /\ ops = 3
  /\ materials["M1"] # last.before["M1"]
  /\ last.before["M1"] # last.previous.before["M1"]
  /\ "M2" \in UsedBySelection
  /\ materials["M2"] = GraphDiffuse

\* ------------------------------------------------- the processed cache
\* the slot materials an ALL/SPECIFIC run visits, one entry per slot
VisitedSlots ==
  visited_materials(last.before,
                    get_target_objects(last.objects, collection_objects, props.target_type))

RunMaterials == [i \in 1..Len(last.runs) |-> last.runs[i].material]

\* C15: a batch replacement that passes validation starts from an empty
\* cache: an ALL/SPECIFIC run rewrites each material among the visited slots
\* once, from the graph it had when the run began, whatever the run before
\* left in the cache, and the cache it leaves names those materials only
C15_CacheClearedPerRun ==
  (last.op = "batch_replace" /\ last.status = "FINISHED") =>
    /\ props.replace_mode \in {"ALL", "SPECIFIC"} =>
         /\ \A i \in 1..Len(VisitedSlots) :
              \E k \in 1..Len(RunMaterials) :
                /\ RunMaterials[k] = VisitedSlots[i]
                /\ \A j \in 1..Len(RunMaterials) : RunMaterials[j] = VisitedSlots[i] => j = k
         /\ \A k \in 1..Len(RunMaterials) :
              /\ \E i \in 1..Len(VisitedSlots) : VisitedSlots[i] = RunMaterials[k]
              /\ last.runs[k].before = last.before[RunMaterials[k]]
              /\ <<RunMaterials[k], last.runs[k].result>> \in processed_materials
         /\ Cardinality(processed_materials) = Len(RunMaterials)
    /\ props.replace_mode \in {"MATERIAL", "MATERIAL_SPECIFIC"} =>
         processed_materials = {}

\* a second run over a selection that names M1 twice, begun with the entries
\* of the first run in the cache, rewrites M1 and M2 once each
C15_SecondRunRewrites ==
  /\ last.op = "batch_replace"
  /\ last.status = "FINISHED"
  /\ props.replace_mode = "ALL"
  /\ last.previous.op = "batch_replace"
  /\ \E e \in last.before_cache : e[1] = "M1" /\ e[2] > 0
  /\ Len(SelectSeq(VisitedSlots, LAMBDA m : m = "M1")) = 2
  /\ RunMaterials = << "M1", "M2" >>
  /\ last.runs[1].result > 0
  /\ Len(last.runs[1].cycles) = last.runs[1].result

\* ------------------------------------------------- semantic compatibility
\* the pairs the table lists, with their scores
ListedPairs ==
  { <<"COLOR", "EMISSION", 80>>, <<"ROUGHNESS", "SPECULAR", 60>>,
    <<"AO", "ROUGHNESS", 40>>, <<"AO", "SPECULAR", 40>> }

\* C16: the compatibility of two semantics is one of 0, 40, 60, 80, 100: 100
\* for identical semantics, the table's value for a listed pair, 0 for any
\* other pair, and 0 for a listed pair read backwards
C16_CompatibilityTable ==
  last.op = "are_semantically_compatible" =>
    /\ last.score \in {0, 40, 60, 80, 100}
    /\ last.output_semantic = last.input_semantic => last.score = 100
    /\ \A e \in ListedPairs :
         /\ (last.output_semantic = e[1] /\ last.input_semantic = e[2]) => last.score = e[3]
         /\ (last.output_semantic = e[2] /\ last.input_semantic = e[1]) => last.score = 0
    /\ ( /\ last.output_semantic # last.input_semantic
         /\ \A e \in ListedPairs :
              ~(last.output_semantic = e[1] /\ last.input_semantic = e[2]) )
         => last.score = 0

\* EMISSION into COLOR scored: the listed pair read backwards
C16_EmissionIntoColor ==
  /\ last.op = "are_semantically_compatible"
  /\ last.output_semantic = "EMISSION"
  /\ last.input_semantic = "COLOR"
  /\ last.score = 0

\* ------------------------------------------------- socket classification
\* the keyword groups in the order they are tested, after the first
LaterGroups ==
  << [keywords |-> NORMAL_KEYWORDS, semantic |-> "NORMAL"],
     [keywords |-> ROUGHNESS_KEYWORDS, semantic |-> "ROUGHNESS"],
     [keywords |-> METALLIC_KEYWORDS, semantic |-> "METALLIC"],
     [keywords |-> ALPHA_KEYWORDS, semantic |-> "ALPHA"],
     [keywords |-> EMISSION_KEYWORDS, semantic |-> "EMISSION"],
     [keywords |-> SPECULAR_KEYWORDS, semantic |-> "SPECULAR"],
     [keywords |-> SUBSURFACE_KEYWORDS, semantic |-> "SUBSURFACE"],
     [keywords |-> AO_KEYWORDS, semantic |-> "AO"],
     [keywords |-> DISPLACEMENT_KEYWORDS, semantic |-> "DISPLACEMENT"],
     [keywords |-> GENERIC_COLOR_KEYWORDS, semantic |-> "COLOR"] >>

\* the semantic of the earliest group with a keyword inside the name
EarliestGroup(groups, name_lower) ==
  LET hits == { i \in 1..Len(groups) : AnyKeyword(groups[i].keywords, name_lower) }
  IN  IF hits = {} THEN "UNKNOWN" ELSE groups[SetMin(hits)].semantic

\* C17: the semantic of a socket name is that of the earliest group, in the
\* order base colour ("base color" or "basecolor"), NORMAL, ROUGHNESS,
\* METALLIC, ALPHA, EMISSION, SPECULAR, SUBSURFACE, AO, DISPLACEMENT, generic
\* colour, with a keyword inside the lower-cased name, and UNKNOWN when no
\* group has one; a name with "emission" and "color" in it and no keyword of
\* an earlier group is EMISSION
C17_EarliestGroupWins ==
  last.op = "get_socket_semantic" =>
    /\ last.semantic =
         EarliestGroup(<< [keywords |-> BASE_COLOR_KEYWORDS, semantic |-> "COLOR"] >>
                         \o LaterGroups,
                       ToLower(last.socket_name))
    /\ ( /\ Contains(<<"e","m","i","s","s","i","o","n">>, ToLower(last.socket_name))
         /\ Contains(<<"c","o","l","o","r">>, ToLower(last.socket_name))
         /\ ~AnyKeyword(BASE_COLOR_KEYWORDS, ToLower(last.socket_name))
         /\ \A i \in 1..4 : ~AnyKeyword(LaterGroups[i].keywords, ToLower(last.socket_name)) )
         => last.semantic = "EMISSION"

\* C17 as stated: the first group is the names with "base color" in them
C17_BaseColorSpelledApart ==
  last.op = "get_socket_semantic" =>
    last.semantic =
      EarliestGroup(<< [keywords |-> << <<"b","a","s","e"," ","c","o","l","o","r">> >>,
                        semantic |-> "COLOR"] >> \o LaterGroups,
                    ToLower(last.socket_name))

\* a name with words of two groups classified by the earlier: "Emission Color"
C17_EmissionColorClassified ==
  /\ last.op = "get_socket_semantic"
  /\ last.socket_name = <<"E","m","i","s","s","i","o","n"," ","C","o","l","o","r">>
  /\ last.semantic = "EMISSION"

\* ------------------------------------------------- the shader-to-output pass
\* the shader nodes of the engine that have an output, in graph order
ShaderNodesWithOutput(nodes) ==
  SelectSeq(nodes, LAMBDA n :
    /\ \/ n.type \in SHADER_NODE_TYPES
       \/ n.type = "GROUP" /\ n.node_tree # "" /\ is_shader_node(n)
    /\ Len(n.outputs) > 0)

\* the attempts of one stage among the attempts of the last operator
StageLog(stage) == SelectSeq(last.log, LAMBDA a : a.stage = stage)

\* C18: in the shader-to-output pass the shader nodes are tried in graph order
\* until a link into the output node's surface input is made: every attempt
\* before the last has failed, an attempt that fails is followed by an
\* attempt for the next shader node while there is one, and at most one link
\* is made
C18_NextShaderTriedAfterFailure ==
  ( /\ last.op = "apply_auto_connections"
    /\ props.auto_connect
    /\ \E i \in 1..Len(last.before["M1"].nodes) :
         last.before["M1"].nodes[i].type = "OUTPUT_MATERIAL" ) =>
    /\ Len(SelectSeq(StageLog("output"), LAMBDA a : a.ok)) <= 1
    /\ Len(StageLog("output")) <= Len(ShaderNodesWithOutput(last.before["M1"].nodes))
    /\ \A k \in 1..Len(StageLog("output")) :
         /\ StageLog("output")[k].from_node
              = ShaderNodesWithOutput(last.before["M1"].nodes)[k].name
         /\ k < Len(StageLog("output")) => ~StageLog("output")[k].ok
    /\ ( \A k \in 1..Len(StageLog("output")) : ~StageLog("output")[k].ok )
         => Len(StageLog("output")) = Len(ShaderNodesWithOutput(last.before["M1"].nodes))

\* the host refused the colour output of the first shader node, the diffuse
\* shader after it was not tried, and the surface input is left without a link
C18_SecondShaderNotTried ==
  /\ last.op = "apply_auto_connections"
  /\ props.auto_connect
  /\ last.before["M1"] = GraphRim
  /\ Len(StageLog("output")) = 1
  /\ StageLog("output")[1].from_node = "Group"
  /\ ~StageLog("output")[1].ok
  /\ \A l \in LinkSet(materials["M1"].links) : l.to_node # "Material Output"

\* ------------------------------------------------- links into occupied inputs
\* the attempts of the texture pass and of the other-node pass
PassStages == {"texture", "alpha", "other"}

\* C19: a link made by the texture pass or by the other-node pass goes into an
\* input that carried no link: none when the engine began and none made
\* earlier in the same application
C19_OnlyUnconnectedInputs ==
  (last.op = "apply_auto_connections" /\ props.auto_connect) =>
    \A k \in 1..Len(last.log) :
      (last.log[k].ok /\ last.log[k].stage \in PassStages) =>
        /\ \A l \in LinkSet(last.before["M1"].links) :
             ~(l.to_node = last.log[k].to_node /\ l.to_socket = last.log[k].to_socket)
        /\ \A j \in 1..(k - 1) :
             ~( /\ last.log[j].ok
                /\ last.log[j].to_node = last.log[k].to_node
                /\ last.log[j].to_socket = last.log[k].to_socket )

\* the base colour input fed by the texture's alpha before the engine ran is
\* fed by the texture's colour after it: the texture pass replaced the link
C19_ExistingLinkReplaced ==
  /\ last.op = "apply_auto_connections"
  /\ props.auto_connect
  /\ Link("Image Texture", 1, "Principled BSDF", 0) \in LinkSet(last.before["M1"].links)
  /\ Link("Image Texture", 1, "Principled BSDF", 0) \notin LinkSet(materials["M1"].links)
  /\ Link("Image Texture", 0, "Principled BSDF", 0) \in LinkSet(materials["M1"].links)
  /\ \E k \in 1..Len(last.log) :
       /\ last.log[k].ok
       /\ last.log[k].stage = "texture"
       /\ last.log[k].to_node = "Principled BSDF"
       /\ last.log[k].to_socket = 0

\* the link the texture pass made into the base colour input is replaced by
\* the other-node pass of the same application
C19_EarlierPassLinkReplaced ==
  /\ last.op = "apply_auto_connections"
  /\ props.auto_connect
  /\ last.before["M1"] = GraphTexRgb
  /\ \E j \in 1..Len(last.log), k \in 1..Len(last.log) :
       /\ j < k
       /\ last.log[j].ok /\ last.log[j].stage = "texture"
       /\ last.log[k].ok /\ last.log[k].stage = "other"
       /\ last.log[j].to_node = last.log[k].to_node
       /\ last.log[j].to_socket = last.log[k].to_socket
  /\ Link("Image Texture", 0, "Principled BSDF", 0) \notin LinkSet(materials["M1"].links)
  /\ Link("RGB", 0, "Principled BSDF", 0) \in LinkSet(materials["M1"].links)

\* ------------------------------------------------- one link per input and pass
\* the pass an attempt belongs to
PassOf(stage) == IF stage \in {"texture", "alpha"} THEN "texture" ELSE stage

\* C20: among the links one pass (texture or other-node) makes into the
\* inputs of one shader node no two go into the same input
C20_OneLinkPerInputAndPass ==
  (last.op = "apply_auto_connections" /\ props.auto_connect) =>
    \A j \in 1..Len(last.log), k \in 1..Len(last.log) :
      ( /\ j < k
        /\ last.log[j].ok /\ last.log[k].ok
        /\ last.log[j].stage \in PassStages
        /\ PassOf(last.log[j].stage) = PassOf(last.log[k].stage)
        /\ last.log[j].to_node = last.log[k].to_node )
        => last.log[j].to_socket # last.log[k].to_socket

\* two image textures beside one shader: the first is linked into the base
\* colour and alpha inputs, the second finds both taken and is not linked
C20_SecondTextureFindsInputsTaken ==
  /\ last.op = "apply_auto_connections"
  /\ props.auto_connect
  /\ last.before["M1"] = GraphTwoTex
  /\ Link("Image Texture", 0, "Principled BSDF", 0) \in LinkSet(materials["M1"].links)
  /\ Link("Image Texture", 1, "Principled BSDF", 3) \in LinkSet(materials["M1"].links)
  /\ \A l \in LinkSet(materials["M1"].links) : l.from_node # "Image Texture.001"
  /\ Len(SelectSeq(StageLog("texture") \o StageLog("alpha"), LAMBDA a : a.ok)) = 2

\* ------------------------------------------------- weak matches
\* the inputs of the attempt's shader node that the pass of attempt k had
\* linked before it
UsedBefore(k) ==
  { last.log[j].to_socket :
      j \in { j \in 1..(k - 1) :
                /\ last.log[j].ok
                /\ PassOf(last.log[j].stage) = PassOf(last.log[k].stage)
                /\ last.log[j].to_node = last.log[k].to_node } }

\* the semantic the pass gives the source of attempt k
SourceSemantic(k) ==
  IF last.log[k].stage = "texture"
    THEN texture_semantic(GetNode(last.before["M1"].nodes, last.log[k].from_node))
    ELSE other_output_semantic(
           GetNode(last.before["M1"].nodes, last.log[k].from_node),
           At(GetNode(last.before["M1"].nodes, last.log[k].from_node).outputs,
              last.log[k].from_socket))

\* the compatibility of the source of attempt k with input i of its shader node
ScoreInto(k, i) ==
  are_semantically_compatible(
    SourceSemantic(k),
    Semantic[At(GetNode(last.before["M1"].nodes, last.log[k].to_node).inputs, i).name])

\* C21: a link of a texture that is no image texture, and a link of the
\* other-node pass, goes into an input the pass has not used, whose score is
\* the greatest among the inputs not used and is at least 50 for the texture
\* pass and at least 40 for the other-node pass; the other-node pass links at
\* most one output of a source node to a shader node
C21_WeakMatchesRejected ==
  (last.op = "apply_auto_connections" /\ props.auto_connect) =>
    /\ \A k \in 1..Len(last.log) :
         ( \/ last.log[k].stage = "other"
           \/ /\ last.log[k].stage = "texture"
              /\ GetNode(last.before["M1"].nodes, last.log[k].from_node).type # "TEX_IMAGE" )
         => /\ last.log[k].to_socket \notin UsedBefore(k)
            /\ \A i \in Indices(GetNode(last.before["M1"].nodes, last.log[k].to_node).inputs) :
                 i \notin UsedBefore(k) => ScoreInto(k, i) <= ScoreInto(k, last.log[k].to_socket)
            /\ ScoreInto(k, last.log[k].to_socket)
                 >= (IF last.log[k].stage = "texture" THEN 50 ELSE 40)
    /\ \A j \in 1..Len(last.log), k \in 1..Len(last.log) :
         ( /\ j < k
           /\ last.log[j].stage = "other" /\ last.log[k].stage = "other"
           /\ last.log[j].ok /\ last.log[k].ok
           /\ last.log[j].to_node = last.log[k].to_node )
         => last.log[j].from_node # last.log[k].from_node

\* the texture labelled AO scores 40 into the roughness input and is left
\* unlinked; the value node labelled AO is linked into it by the other-node
\* pass; of the three outputs of the separate node only the first is linked
C21_WeakTextureLeftOtherLinked ==
  /\ last.op = "apply_auto_connections"
  /\ props.auto_connect
  /\ last.before["M1"] = GraphWeak
  /\ \A l \in LinkSet(materials["M1"].links) : l.from_node # "Noise Texture"
  /\ Link("Value", 0, "Group", 2) \in LinkSet(materials["M1"].links)
  /\ Link("Separate Color", 0, "Group", 0) \in LinkSet(materials["M1"].links)
  /\ \A l \in LinkSet(materials["M1"].links) :
       l.from_node = "Separate Color" => l.from_socket = 0

\* ------------------------------------------------- the output node, once
\* the links of a graph from one node into an output node
IntoOutputNode(g, name) ==
  { l \in LinkSet(g.links) :
      l.from_node = name /\ GetNode(g.nodes, l.to_node).type = "OUTPUT_MATERIAL" }

\* C22: the reconnection of one replacement links the new node to the output
\* node at most once: after the surface connection no further captured link
\* into the output node is made
C22_OutputNodeLinkedOnce ==
  (last.op = "batch_replace" /\ last.status = "FINISHED" /\ props.auto_connect) =>
    \A i \in 1..Len(last.runs) :
      \A c \in 1..Len(last.runs[i].cycles) :
        Cardinality(IntoOutputNode(last.runs[i].cycles[c].graph,
                                   last.runs[i].cycles[c].new_shader.name)) <= 1

\* the replaced shader drove the surface and the volume input; its
\* replacement was linked into the surface input and then, by the second
\* captured link, into the volume input as well
C22_VolumeLinkedAfterSurface ==
  /\ last.op = "batch_replace"
  /\ last.status = "FINISHED"
  /\ props.auto_connect
  /\ last.before["M1"] = GraphSurfaceVolume
  /\ Len(last.runs[1].cycles) = 1
  /\ last.runs[1].cycles[1].output_connected_to_material
  /\ { l.to_socket : l \in IntoOutputNode(materials["M1"],
                                          last.runs[1].cycles[1].new_shader.name) } = {0, 1}

\* ------------------------------------------------- input reconnection
\* the input attempts of one replacement
InputAttempts(cycle) == SelectSeq(cycle.attempts, LAMBDA a : a.stage = "replace_input")

\* the inputs of the new node linked by the input attempts before attempt k
InputsTaken(cycle, k) ==
  { InputAttempts(cycle)[j].to_socket :
      j \in { j \in 1..(k - 1) : InputAttempts(cycle)[j].ok } }

\* attempt k goes into the input that scores highest for the captured link,
\* among the inputs not taken, with a score of at least 30
BestOfFree(cycle, k, conn) ==
  /\ input_socket_score(cycle.new_shader.inputs, InputAttempts(cycle)[k].to_socket,
                        conn.socket_name, conn.to_socket_type) >= 300
  /\ \A i \in Indices(cycle.new_shader.inputs) \ InputsTaken(cycle, k) :
       input_socket_score(cycle.new_shader.inputs, i, conn.socket_name,
                          conn.to_socket_type)
         <= input_socket_score(cycle.new_shader.inputs,
                               InputAttempts(cycle)[k].to_socket,
                               conn.socket_name, conn.to_socket_type)

\* C23: in the input reconnection of one replacement every attempt is for a
\* captured incoming link, goes into the highest-scoring input not yet taken,
\* whose score is at least 30, and never into an input that has accepted a
\* link, so that no two captured links end in the same input of the new node
C23_InputsReconnectedOnce ==
  (last.op = "batch_replace" /\ last.status = "FINISHED" /\ props.auto_connect) =>
    \A i \in 1..Len(last.runs) :
      \A c \in 1..Len(last.runs[i].cycles) :
        /\ \A k \in 1..Len(InputAttempts(last.runs[i].cycles[c])) :
             /\ InputAttempts(last.runs[i].cycles[c])[k].to_node
                  = last.runs[i].cycles[c].new_shader.name
             /\ InputAttempts(last.runs[i].cycles[c])[k].to_socket
                  \notin InputsTaken(last.runs[i].cycles[c], k)
             /\ \E n \in 1..Len(last.runs[i].cycles[c].input_links) :
                  /\ last.runs[i].cycles[c].input_links[n].from_node
                       = InputAttempts(last.runs[i].cycles[c])[k].from_node
                  /\ last.runs[i].cycles[c].input_links[n].from_socket_index
                       = InputAttempts(last.runs[i].cycles[c])[k].from_socket
                  /\ BestOfFree(last.runs[i].cycles[c], k,
                                last.runs[i].cycles[c].input_links[n])
        /\ \A l1, l2 \in LinkSet(last.runs[i].cycles[c].graph.links) :
             ( /\ l1.to_node = last.runs[i].cycles[c].new_shader.name
               /\ l2.to_node = last.runs[i].cycles[c].new_shader.name
               /\ l1.to_socket = l2.to_socket ) => l1 = l2

\* the group's colour and emission inputs were fed by two nodes; on the
\* principled node the colour link took Base Color, which scores highest for
\* the emission link too, and the emission link went to another input
C23_SecondLinkElsewhere ==
  /\ last.op = "batch_replace"
  /\ last.status = "FINISHED"
  /\ props.auto_connect
  /\ last.before["M1"] = GraphGlow
  /\ Len(last.runs[1].cycles) = 1
  /\ Len(InputAttempts(last.runs[1].cycles[1])) = 2
  /\ InputAttempts(last.runs[1].cycles[1])[1].ok
  /\ InputAttempts(last.runs[1].cycles[1])[1].to_socket = 0
  /\ InputAttempts(last.runs[1].cycles[1])[2].ok
  /\ InputAttempts(last.runs[1].cycles[1])[2].to_socket # 0
  /\ last.runs[1].cycles[1].new_shader.type = "BSDF_PRINCIPLED"
  /\ input_socket_score(last.runs[1].cycles[1].new_shader.inputs, 0, "Emission", "RGBA")
       > input_socket_score(last.runs[1].cycles[1].new_shader.inputs,
                            InputAttempts(last.runs[1].cycles[1])[2].to_socket,
                            "Emission", "RGBA")

\* ------------------------------------------------- name match first
\* the inputs not yet used whose name is the captured name
NamedAlike ==
  { i \in Indices(last.inputs) \ last.connected_inputs :
      At(last.inputs, i).name = last.original_name }

\* C24: when an input not yet used has exactly the captured name, the input
\* matching returns an input of that name, whatever the kinds and positions
\* of the other inputs
C24_ExactNameWins ==
  (last.op = "find_best_input_socket" /\ NamedAlike # {}) =>
    last.target_socket \in NamedAlike

\* the captured input "Color" is a colour input; the new node has a colour
\* input "color" before a shader input "Color", and the matching returns "color"
C24_OtherCaseBeatsExactName ==
  /\ last.op = "find_best_input_socket"
  /\ last.original_type = "RGBA"
  /\ last.connected_inputs = {}
  /\ last.inputs = << Sock("color", "RGBA"), Sock("Color", "SHADER") >>
  /\ last.target_socket = 0

\* ------------------------------------------------- write order of a reconnect
\* the writes of one material's reconnect in the order auto-connection,
\* rules, snapshot restore
WritesInOrder(stage) == stage.auto_log \o stage.rule_log \o stage.restore_log

\* the last write of a sequence of attempts that made a link into an input
LastWriteInto(writes, to_node, to_socket) ==
  SetMax({ k \in 1..Len(writes) :
             /\ writes[k].ok
             /\ writes[k].to_node = to_node
             /\ writes[k].to_socket = to_socket })

\* the rule of connection_rules an attempt of the rule loop can come from
RulesOf(nodes, a) ==
  { n \in 1..Len(connection_rules) :
      /\ connection_rules[n].source_socket_index = a.from_socket
      /\ connection_rules[n].target_socket_index = a.to_socket
      /\ \E i \in 1..Len(rule_nodes(nodes, connection_rules[n].source_match_mode,
                                    connection_rules[n].source_node_label,
                                    connection_rules[n].source_node_type)) :
           rule_nodes(nodes, connection_rules[n].source_match_mode,
                      connection_rules[n].source_node_label,
                      connection_rules[n].source_node_type)[i].name = a.from_node
      /\ \E i \in 1..Len(rule_nodes(nodes, connection_rules[n].target_match_mode,
                                    connection_rules[n].target_node_label,
                                    connection_rules[n].target_node_type)) :
           rule_nodes(nodes, connection_rules[n].target_match_mode,
                      connection_rules[n].target_node_label,
                      connection_rules[n].target_node_type)[i].name = a.to_node }

\* C25: one material's reconnect writes in the order auto-connection (when
\* enabled), the rules in stored order, snapshot restore, and for every
\* input written the link into it after the reconnect is the last write made
\* in this order
C25_LastWriteWins ==
  (last.op = "reconnect" /\ last.status = "FINISHED") =>
    \A s \in 1..Len(last.stages) :
      /\ ~props.auto_connect => last.stages[s].auto_log = <<>>
      /\ \A k \in 1..Len(last.stages[s].auto_log) :
           last.stages[s].auto_log[k].stage \in {"output", "texture", "alpha", "other"}
      /\ \A k \in 1..Len(last.stages[s].restore_log) :
           last.stages[s].restore_log[k].stage = "restore"
      /\ \A k \in 1..Len(last.stages[s].rule_log) :
           /\ last.stages[s].rule_log[k].stage = "rule"
           /\ RulesOf(materials[last.stages[s].material].nodes,
                      last.stages[s].rule_log[k]) # {}
           /\ \A j \in 1..(k - 1) :
                SetMin(RulesOf(materials[last.stages[s].material].nodes,
                               last.stages[s].rule_log[j]))
                  <= SetMax(RulesOf(materials[last.stages[s].material].nodes,
                                    last.stages[s].rule_log[k]))
      /\ \A k \in 1..Len(WritesInOrder(last.stages[s])) :
           WritesInOrder(last.stages[s])[k].ok =>
             \E l \in LinkSet(materials[last.stages[s].material].links) :
               /\ l.to_node = WritesInOrder(last.stages[s])[k].to_node
               /\ l.to_socket = WritesInOrder(last.stages[s])[k].to_socket
               /\ l.from_node =
                    WritesInOrder(last.stages[s])[
                      LastWriteInto(WritesInOrder(last.stages[s]), l.to_node, l.to_socket)
                    ].from_node
               /\ l.from_socket =
                    WritesInOrder(last.stages[s])[
                      LastWriteInto(WritesInOrder(last.stages[s]), l.to_node, l.to_socket)
                    ].from_socket

\* the base colour input is written by the auto-connection, by the first
\* rule (alpha), by the second rule (colour) and by the restore (alpha): the
\* second rule's link stands after the rules, the restored link at the end
C25_RuleOverRuleRestoreOverRule ==
  /\ last.op = "reconnect"
  /\ last.status = "FINISHED"
  /\ props.auto_connect
  /\ connection_rules = OverwritingRules
  /\ Len(last.stages) >= 1
  /\ last.stages[1].material = "M1"
  /\ \E k \in 1..Len(last.stages[1].auto_log) :
       /\ last.stages[1].auto_log[k].ok
       /\ last.stages[1].auto_log[k].to_node = "Principled BSDF"
       /\ last.stages[1].auto_log[k].to_socket = 0
  /\ Len(last.stages[1].rule_log) = 2
  /\ last.stages[1].rule_log[1].ok /\ last.stages[1].rule_log[2].ok
  /\ Link("Image Texture", 0, "Principled BSDF", 0) \in LinkSet(last.stages[1].after_rules)
  /\ Link("Image Texture", 1, "Principled BSDF", 0) \notin LinkSet(last.stages[1].after_rules)
  /\ \E k \in 1..Len(last.stages[1].restore_log) :
       /\ last.stages[1].restore_log[k].ok
       /\ last.stages[1].restore_log[k].to_node = "Principled BSDF"
       /\ last.stages[1].restore_log[k].to_socket = 0
  /\ Link("Image Texture", 1, "Principled BSDF", 0) \in LinkSet(materials["M1"].links)
  /\ Link("Image Texture", 0, "Principled BSDF", 0) \notin LinkSet(materials["M1"].links)

\* ------------------------------------------------- reads of the group cache
\* the group definition a reference of a returned list stands for
Referenced(id) == { node_groups[i] : i \in { j \in 1..Len(node_groups) : node_groups[j].id = id } }

\* the shader-kind group definitions the registry holds
ShaderGroupIds ==
  { node_groups[i].id : i \in { j \in 1..Len(node_groups) : node_groups[j].type = "SHADER" } }

\* C26: every read of the sorted shader-group cache returns exactly the
\* shader-kind group definitions now in the registry, each once, in
\* ascending order of their names
C26_ReadIsCurrentAndSorted ==
  last.op = "get_sorted_shader_node_groups" =>
    /\ { last.returned[i] : i \in 1..Len(last.returned) } = ShaderGroupIds
    /\ Len(last.returned) = Cardinality(ShaderGroupIds)
    /\ \A i \in 1..(Len(last.returned) - 1) :
         \A a \in Referenced(last.returned[i]), b \in Referenced(last.returned[i + 1]) :
           StrLess(a.name, b.name)

\* a read that found the group count it had seen before returns the two
\* shader groups of the registry, the one renamed since out of order
C26_RenamedGroupOutOfOrder ==
  /\ last.op = "get_sorted_shader_node_groups"
  /\ ~last.recomputed
  /\ { last.returned[i] : i \in 1..Len(last.returned) } = ShaderGroupIds
  /\ Len(last.returned) = 2
  /\ \E a \in Referenced(last.returned[1]), b \in Referenced(last.returned[2]) :
       StrLess(b.name, a.name)

\* a read that recomputed returns the shader groups in order of their names,
\* capitals before small letters
C26_RecomputedReadSorted ==
  /\ last.op = "get_sorted_shader_node_groups"
  /\ last.recomputed
  /\ Len(last.returned) = 2
  /\ \E a \in Referenced(last.returned[1]), b \in Referenced(last.returned[2]) :
       a.name = "Toon" /\ b.name = "color"

\* ------------------------------------------------- the reported total
\* the nodes the run removed and replaced by a new node, each once
NodesReplaced == FoldSeq(LAMBDA n, run : n + Len(run.cycles), 0, last.runs)

\* the slots of the target objects that hold this material
SlotsHolding(mat) == { i \in 1..Len(VisitedSlots) : VisitedSlots[i] = mat }

\* C27: the replaced-node total a batchReplace run reports is the number of
\* nodes the run removed and replaced by a new node, each counted once
C27_TotalCountsReplacedNodes ==
  (last.op = "batch_replace" /\ last.status = "FINISHED") => last.count = NodesReplaced

\* a material with a replaced node sits in two slots of the target objects:
\* its result is added once per slot, so the total exceeds the nodes replaced
C27_SharedMaterialCountedPerSlot ==
  /\ last.op = "batch_replace"
  /\ last.status = "FINISHED"
  /\ props.replace_mode \in {"ALL", "SPECIFIC"}
  /\ \E i \in 1..Len(last.runs) :
       /\ last.runs[i].result > 0
       /\ Len(last.runs[i].cycles) = last.runs[i].result
       /\ Cardinality(SlotsHolding(last.runs[i].material)) >= 2
  /\ last.count > NodesReplaced

\* ------------------------------------------------- the driver of the output
\* the links of a graph into the surface input of one of its output nodes
SurfaceLinks(g) ==
  { l \in LinkSet(g.links) :
      \E k \in 1..Len(OutputNodes(g)) :
        /\ l.to_node = OutputNodes(g)[k].name
        /\ l.to_socket = surface_input(OutputNodes(g)[k]) }

\* the node that stands for a node of the graph before the run: the node
\* created for it when the run replaced it, else the node itself
StandsFor(run, name) ==
  IF \E k \in 1..Len(run.cycles) : run.cycles[k].old_shader.name = name
    THEN run.cycles[CHOOSE k \in 1..Len(run.cycles) :
                      run.cycles[k].old_shader.name = name].new_shader.name
    ELSE name

\* the targets the run located in a material
TargetNames(run) == { LocatedTargets(run)[t] : t \in 1..Len(LocatedTargets(run)) }

\* C28: with auto-connect enabled a batchReplace run in which every
\* replacement went through leaves the output node's surface input driven by
\* the node that drove it before (or by that node's replacement), and keeps
\* every link between two nodes that were not targets
C28_OutputDriverPreserved ==
  (Replaced /\ props.auto_connect) =>
    \A i \in 1..Len(last.runs) :
      last.runs[i].failed = <<>> =>
        /\ \A l \in SurfaceLinks(last.runs[i].before) :
             StandsFor(last.runs[i], l.from_node)
               \in { f.from_node : f \in { x \in SurfaceLinks(materials[last.runs[i].material]) :
                                             x.to_node = l.to_node } }
        /\ \A l \in LinkSet(last.runs[i].before.links) :
             (l.from_node \notin TargetNames(last.runs[i])
                /\ l.to_node \notin TargetNames(last.runs[i]))
               => l \in LinkSet(materials[last.runs[i].material].links)

\* a node that is no target drives the surface input and a target feeds that
\* node: after the run, on a host that refuses no link, the target's
\* replacement drives the surface input and the link from the driver to the
\* output node is gone
C28_NonTargetDriverDisplaced ==
  /\ Replaced
  /\ props.auto_connect
  /\ refused = Permissive
  /\ \E i \in 1..Len(last.runs) :
       /\ last.runs[i].failed = <<>>
       /\ Len(last.runs[i].cycles) = 1
       /\ \E l \in SurfaceLinks(last.runs[i].before) :
            /\ l.from_node \notin TargetNames(last.runs[i])
            /\ HasNode(materials[last.runs[i].material].nodes, l.from_node)
            /\ l \notin LinkSet(materials[last.runs[i].material].links)
            /\ \E f \in SurfaceLinks(materials[last.runs[i].material]) :
                 /\ f.to_node = l.to_node
                 /\ f.from_node = last.runs[i].cycles[1].new_shader.name
                 /\ f.from_node # l.from_node

\* ------------------------------------------------- the snapshot store
\* the restores a reconnect attempted, per material in the order visited
RestoreAttempts(stages) ==
  [i \in 1..Len(stages) |->
     [material |-> stages[i].material,
      attempts |-> [k \in 1..Len(stages[i].restore_log) |->
                      << stages[i].restore_log[k].from_node,
                         stages[i].restore_log[k].from_socket,
                         stages[i].restore_log[k].to_node,
                         stages[i].restore_log[k].to_socket >>]]]

\* one step of the add-on seen from the snapshot store
SnapshotStep ==
  /\ (last'.op = "reconnect" /\ last' # last) => connection_snapshot' = connection_snapshot
  /\ connection_snapshot' # connection_snapshot
       => last'.op \in {"disconnect", "clear_snapshot"}
  /\ (last'.op = "clear_snapshot" /\ last' # last) => connection_snapshot' = <<>>
  /\ (last.op = "reconnect" /\ last'.op = "reconnect" /\ last' # last
        /\ last.status = "FINISHED" /\ last'.status = "FINISHED"
        /\ last'.objects = last.objects)
       => RestoreAttempts(last'.stages) = RestoreAttempts(last.stages)

\* C29: a reconnect leaves the sequence of snapshot records as it was, the
\* store changes only in a disconnect or a clearSnapshot (which empties it),
\* and a reconnect that follows a reconnect on the same selection attempts the
\* same restores
C29_ReconnectReadsSnapshot == [][SnapshotStep]_vars

\* a second reconnect after a disconnect: the store still holds the records
\* and the reconnect attempted restores from them
C29_SecondReconnectRestores ==
  /\ last.op = "reconnect"
  /\ last.status = "FINISHED"
  /\ last.previous.op = "reconnect"
  /\ last.previous.status = "FINISHED"
  /\ connection_snapshot # <<>>
  /\ connection_snapshot = last.before_snapshot
  /\ \E i \in 1..Len(last.stages) :
       \E k \in 1..Len(last.stages[i].restore_log) : last.stages[i].restore_log[k].ok

\* ------------------------------------------------- the active rule
\* C30: whenever the rule list is non-empty the active rule index is that of
\* one of its rules; add-rule appends one rule and makes it the active one; a
\* remove-rule that finds the index outside the list removes nothing, one
\* that finds it inside removes one rule
C30_ActiveRuleInList ==
  /\ connection_rules # <<>> =>
       (0 <= props.active_rule_index /\ props.active_rule_index < Len(connection_rules))
  /\ last.op = "add_connection_rule" =>
       /\ Len(connection_rules) = Len(last.rules) + 1
       /\ SubSeq(connection_rules, 1, Len(last.rules)) = last.rules
       /\ props.active_rule_index = Len(connection_rules) - 1
  /\ last.op = "remove_connection_rule" =>
       IF 0 <= last.active_rule_index /\ last.active_rule_index < Len(last.rules)
         THEN Len(connection_rules) = Len(last.rules) - 1
         ELSE connection_rules = last.rules

\* the last rule of a list of two was the active one and was removed: the
\* rule left is the active one
C30_RemovedLastOfTwo ==
  /\ last.op = "remove_connection_rule"
  /\ Len(last.rules) = 2
  /\ last.active_rule_index = 1
  /\ Len(connection_rules) = 1
  /\ props.active_rule_index = 0

\* a remove-rule on the emptied list, where the index is -1, removed nothing
C30_RemoveOnEmptyList ==
  /\ last.op = "remove_connection_rule"
  /\ last.rules = <<>>
  /\ last.active_rule_index = 0 - 1
  /\ connection_rules = <<>>

====
